---- MODULE Spec2Model ----
(***************************************************************************)
(* A model of the VDF (Valve KeyValues) tokenizer and parser.              *)
(*                                                                         *)
(* The tokenizer of src/src/tokenizer.ts is modelled as operators over a   *)
(* record holding the fields of a Tokenizer instance, together with the    *)
(* tokens the current call has yielded and the exception it has thrown.    *)
(* A character is a one-character string; a JavaScript string (a lexeme,   *)
(* a chunk of text) is the sequence of its characters.                     *)
(***************************************************************************)
EXTENDS Integers, Sequences, FiniteSets, TLC

(***************************************************************************)
(* Bounds of the model.                                                    *)
(***************************************************************************)
MaxLen == 4
MaxEscLen == 5
MaxNestLen == 6
MaxLexLen == 2
MaxChunkLen == 2
MaxStreamLen == 4
MaxReadLen == 2
MaxCommentLen == 3
MaxOrderLen == 6

(***************************************************************************)
(* Character constants (tokenizer.ts 14-25).                               *)
(***************************************************************************)
ESCAPE == "\\"
ESCAPE_SEQUENCES__KEEP_SLASH == {<<"\\", "n">>, <<"\\", "t">>}
\* Variant: the escaped quote is missing from the list.
ESCAPE_SEQUENCES__NO_SLASH_withoutQuote == {<<"\\", "\\">>}
ESCAPE_SEQUENCES__NO_SLASH == {<<"\\", "\\">>, <<"\\", "\"">>}
QUOTE == "\""
WHITE_SPACE == " "
TAB_SPACE == "\t"
BOM == "\f"
NEW_LINE_CHAR == "\n"
CARRIAGE_RETURN_CHAR == "\r"
BRACKET_OPEN == "{"
BRACKET_CLOSE == "}"
COMMENT_START == <<"/", "/">>
SLASH == "/"

\* JavaScript's null (an empty lookahead slot) and undefined (no second
\* character in the window).
Null == "null"
Undefined == "undefined"

\* No exception thrown by the current call.
NoError == "none"

TokenizerState ==
    {"IN_KEY_WITH_QUOTE", "IN_VALUE_WITH_QUOTE", "IN_KEY_WITHOUT_QUOTE",
     "IN_VALUE_WITHOUT_QUOTE", "AFTER_KEY", "AFTER_VALUE",
     "COMMENT_AFTER_KEY", "COMMENT_AFTER_VALUE"}

TokenizerErrors ==
    {"TooManyBrackets", "OpenBracketAfterValue", "CloseBracketAfterKey",
     "NoCharacterToEscape", "UnsupportedEscapeSequence", "EscapeOutsideQuote"}

NestStart == "{"
NestEnd == "}"

(***************************************************************************)
(* tokenParts.join('')                                                     *)
(***************************************************************************)
RECURSIVE Join(_)
Join(parts) ==
    IF parts = <<>> THEN <<>> ELSE Head(parts) \o Join(Tail(parts))

(***************************************************************************)
(* A Tokenizer instance right after construction.                          *)
(***************************************************************************)
NewTokenizer(opts) ==
    [ state             |-> "AFTER_VALUE",
      nestedLevel       |-> 0,
      previousChar      |-> Null,
      currentLineNumber |-> 0,
      currentPosition   |-> 0,
      tokenParts        |-> <<>>,
      options           |-> opts,
      yielded           |-> <<>>,
      thrown            |-> NoError ]

\* throw new <e>(...)
Throw(t, e) == [t EXCEPT !.thrown = e]

\* this.tokenParts.push(char) for a single character
Push(t, char) == [t EXCEPT !.tokenParts = Append(@, <<char>>)]

\* this.tokenParts.push(charToPush) for a string of one or two characters
PushString(t, str) == [t EXCEPT !.tokenParts = Append(@, str)]

\* this.state = s
SetState(t, s) == [t EXCEPT !.state = s]

\* this.currentPosition += n, skipped when the handler has thrown
Advance(t, n) ==
    IF t.thrown # NoError THEN t ELSE [t EXCEPT !.currentPosition = @ + n]

\* yield this.emitToken(tokenType)
emitToken(t, tokenType) ==
    [t EXCEPT !.yielded = Append(@, [tokenType |-> tokenType,
                                     value |-> Join(t.tokenParts)]),
              !.tokenParts = <<>>]

\* Variant: the depth is lowered without the check for too many brackets.
emitNest_unchecked(t, nestDirection) ==
    [t EXCEPT !.nestedLevel = IF nestDirection = NestStart
                              THEN @ + 1 ELSE @ - 1,
              !.yielded = Append(@, [tokenType |-> "NEST",
                                     value |-> nestDirection])]

\* Variant: NEST end leaves the depth as it is.
emitNest_noDecrement(t, nestDirection) ==
    IF nestDirection = NestStart
    THEN [t EXCEPT !.nestedLevel = @ + 1,
                   !.yielded = Append(@, [tokenType |-> "NEST",
                                          value |-> NestStart])]
    ELSE IF t.nestedLevel - 1 < 0
         THEN Throw([t EXCEPT !.nestedLevel = @ - 1], "TooManyBrackets")
         ELSE [t EXCEPT !.yielded = Append(@, [tokenType |-> "NEST",
                                               value |-> NestEnd])]

\* yield this.emitNest(nestDirection): the depth is changed before the
\* check, so a throwing call leaves it decremented.
emitNest(t, nestDirection) ==
    IF nestDirection = NestStart
    THEN [t EXCEPT !.nestedLevel = @ + 1,
                   !.yielded = Append(@, [tokenType |-> "NEST",
                                          value |-> NestStart])]
    ELSE IF t.nestedLevel - 1 < 0
         THEN Throw([t EXCEPT !.nestedLevel = @ - 1], "TooManyBrackets")
         ELSE [t EXCEPT !.nestedLevel = @ - 1,
                        !.yielded = Append(@, [tokenType |-> "NEST",
                                               value |-> NestEnd])]

\* A statement that follows a call which may have thrown.
Then(t, next(_)) == IF t.thrown # NoError THEN t ELSE next(t)

\* Variant: a newline that ends an unquoted key goes to AFTER_VALUE.
handleNewLine_keyAsValue(t, char) ==
    LET r == CASE t.state = "IN_KEY_WITH_QUOTE" -> Push(t, char)
               [] t.state = "IN_VALUE_WITH_QUOTE" -> Push(t, char)
               [] t.state = "IN_KEY_WITHOUT_QUOTE" ->
                      SetState(emitToken(t, "KEY"), "AFTER_VALUE")
               [] t.state = "IN_VALUE_WITHOUT_QUOTE" ->
                      SetState(emitToken(t, "VALUE"), "AFTER_VALUE")
               [] t.state = "AFTER_KEY" -> t
               [] t.state = "AFTER_VALUE" -> t
               [] t.state = "COMMENT_AFTER_KEY" -> SetState(t, "AFTER_KEY")
               [] t.state = "COMMENT_AFTER_VALUE" -> SetState(t, "AFTER_VALUE")
    IN  [r EXCEPT !.currentLineNumber = @ + 1, !.currentPosition = 0]

handleNewLine(t, char) ==
    LET r == CASE t.state = "IN_KEY_WITH_QUOTE" -> Push(t, char)
               [] t.state = "IN_VALUE_WITH_QUOTE" -> Push(t, char)
               [] t.state = "IN_KEY_WITHOUT_QUOTE" ->
                      SetState(emitToken(t, "KEY"), "AFTER_KEY")
               [] t.state = "IN_VALUE_WITHOUT_QUOTE" ->
                      SetState(emitToken(t, "VALUE"), "AFTER_VALUE")
               [] t.state = "AFTER_KEY" -> t
               [] t.state = "AFTER_VALUE" -> t
               [] t.state = "COMMENT_AFTER_KEY" -> SetState(t, "AFTER_KEY")
               [] t.state = "COMMENT_AFTER_VALUE" -> SetState(t, "AFTER_VALUE")
    IN  [r EXCEPT !.currentLineNumber = @ + 1, !.currentPosition = 0]

\* Variant: whitespace after a key stands for an empty value.
handleWhitespace_emptyValue(t, char) ==
    LET r == CASE t.state = "IN_KEY_WITH_QUOTE" -> Push(t, char)
               [] t.state = "IN_VALUE_WITH_QUOTE" -> Push(t, char)
               [] t.state = "IN_KEY_WITHOUT_QUOTE" ->
                      SetState(emitToken(t, "KEY"), "AFTER_KEY")
               [] t.state = "IN_VALUE_WITHOUT_QUOTE" ->
                      SetState(emitToken(t, "VALUE"), "AFTER_VALUE")
               [] t.state = "AFTER_KEY" ->
                      SetState(emitToken(t, "VALUE"), "AFTER_VALUE")
               [] t.state = "AFTER_VALUE" -> t
               [] t.state = "COMMENT_AFTER_KEY" -> t
               [] t.state = "COMMENT_AFTER_VALUE" -> t
    IN  Advance(r, 1)

handleWhitespace(t, char) ==
    LET r == CASE t.state = "IN_KEY_WITH_QUOTE" -> Push(t, char)
               [] t.state = "IN_VALUE_WITH_QUOTE" -> Push(t, char)
               [] t.state = "IN_KEY_WITHOUT_QUOTE" ->
                      SetState(emitToken(t, "KEY"), "AFTER_KEY")
               [] t.state = "IN_VALUE_WITHOUT_QUOTE" ->
                      SetState(emitToken(t, "VALUE"), "AFTER_VALUE")
               [] t.state = "AFTER_KEY" -> t
               [] t.state = "AFTER_VALUE" -> t
               [] t.state = "COMMENT_AFTER_KEY" -> t
               [] t.state = "COMMENT_AFTER_VALUE" -> t
    IN  Advance(r, 1)

\* Variant: the quote that closes a quoted key goes to AFTER_VALUE.
handleQuote_keyAsValue(t) ==
    LET r == CASE t.state = "IN_KEY_WITH_QUOTE" ->
                      SetState(emitToken(t, "KEY"), "AFTER_VALUE")
               [] t.state = "IN_VALUE_WITH_QUOTE" ->
                      SetState(emitToken(t, "VALUE"), "AFTER_VALUE")
               [] t.state = "IN_KEY_WITHOUT_QUOTE" ->
                      SetState(emitToken(t, "KEY"), "AFTER_KEY")
               [] t.state = "IN_VALUE_WITHOUT_QUOTE" ->
                      SetState(emitToken(t, "VALUE"), "AFTER_VALUE")
               [] t.state = "AFTER_KEY" -> SetState(t, "IN_VALUE_WITH_QUOTE")
               [] t.state = "AFTER_VALUE" -> SetState(t, "IN_KEY_WITH_QUOTE")
               [] t.state = "COMMENT_AFTER_KEY" -> t
               [] t.state = "COMMENT_AFTER_VALUE" -> t
    IN  Advance(r, 1)

handleQuote(t) ==
    LET r == CASE t.state = "IN_KEY_WITH_QUOTE" ->
                      SetState(emitToken(t, "KEY"), "AFTER_KEY")
               [] t.state = "IN_VALUE_WITH_QUOTE" ->
                      SetState(emitToken(t, "VALUE"), "AFTER_VALUE")
               [] t.state = "IN_KEY_WITHOUT_QUOTE" ->
                      SetState(emitToken(t, "KEY"), "AFTER_KEY")
               [] t.state = "IN_VALUE_WITHOUT_QUOTE" ->
                      SetState(emitToken(t, "VALUE"), "AFTER_VALUE")
               [] t.state = "AFTER_KEY" -> SetState(t, "IN_VALUE_WITH_QUOTE")
               [] t.state = "AFTER_VALUE" -> SetState(t, "IN_KEY_WITH_QUOTE")
               [] t.state = "COMMENT_AFTER_KEY" -> t
               [] t.state = "COMMENT_AFTER_VALUE" -> t
    IN  Advance(r, 1)

\* Variant: an open-brace after a completed value starts a block.
handleBracketOpen_afterValue(t, char) ==
    LET toAfterValue(x) == SetState(x, "AFTER_VALUE")
        r == CASE t.state = "IN_KEY_WITH_QUOTE" -> Push(t, char)
               [] t.state = "IN_VALUE_WITH_QUOTE" -> Push(t, char)
               [] t.state = "IN_KEY_WITHOUT_QUOTE" ->
                      Then(emitNest(emitToken(t, "KEY"), NestStart),
                           toAfterValue)
               [] t.state = "IN_VALUE_WITHOUT_QUOTE" ->
                      Throw(t, "OpenBracketAfterValue")
               [] t.state = "AFTER_KEY" ->
                      Then(emitNest(t, NestStart), toAfterValue)
               [] t.state = "AFTER_VALUE" ->
                      Then(emitNest(t, NestStart), toAfterValue)
               [] t.state = "COMMENT_AFTER_KEY" -> t
               [] t.state = "COMMENT_AFTER_VALUE" -> t
    IN  Advance(r, 1)

handleBracketOpen(t, char) ==
    LET toAfterValue(x) == SetState(x, "AFTER_VALUE")
        r == CASE t.state = "IN_KEY_WITH_QUOTE" -> Push(t, char)
               [] t.state = "IN_VALUE_WITH_QUOTE" -> Push(t, char)
               [] t.state = "IN_KEY_WITHOUT_QUOTE" ->
                      Then(emitNest(emitToken(t, "KEY"), NestStart),
                           toAfterValue)
               [] t.state = "IN_VALUE_WITHOUT_QUOTE" ->
                      Throw(t, "OpenBracketAfterValue")
               [] t.state = "AFTER_KEY" ->
                      Then(emitNest(t, NestStart), toAfterValue)
               [] t.state = "AFTER_VALUE" ->
                      Throw(t, "OpenBracketAfterValue")
               [] t.state = "COMMENT_AFTER_KEY" -> t
               [] t.state = "COMMENT_AFTER_VALUE" -> t
    IN  Advance(r, 1)

\* Variant: a close-brace after a bare key ends the block.
handleBracketClose_afterKey(t, char) ==
    LET toAfterValue(x) == SetState(x, "AFTER_VALUE")
        r == CASE t.state = "IN_KEY_WITH_QUOTE" -> Push(t, char)
               [] t.state = "IN_VALUE_WITH_QUOTE" -> Push(t, char)
               [] t.state = "IN_KEY_WITHOUT_QUOTE" ->
                      Then(emitNest(emitToken(t, "KEY"), NestEnd),
                           toAfterValue)
               [] t.state = "IN_VALUE_WITHOUT_QUOTE" ->
                      Then(emitNest(emitToken(t, "VALUE"), NestEnd),
                           toAfterValue)
               [] t.state = "AFTER_KEY" ->
                      Then(emitNest(t, NestEnd), toAfterValue)
               [] t.state = "AFTER_VALUE" -> emitNest(t, NestEnd)
               [] t.state = "COMMENT_AFTER_KEY" -> t
               [] t.state = "COMMENT_AFTER_VALUE" -> t
    IN  Advance(r, 1)

\* Variant: a close-brace inside a quoted lexeme closes a block.
handleBracketClose_inQuotes(t, char) ==
    LET toAfterValue(x) == SetState(x, "AFTER_VALUE")
        r == CASE t.state = "IN_KEY_WITH_QUOTE" ->
                      Throw(t, "CloseBracketAfterKey")
               [] t.state = "IN_VALUE_WITH_QUOTE" ->
                      Then(emitNest(emitToken(t, "VALUE"), NestEnd),
                           toAfterValue)
               [] t.state = "IN_KEY_WITHOUT_QUOTE" ->
                      Throw(t, "CloseBracketAfterKey")
               [] t.state = "IN_VALUE_WITHOUT_QUOTE" ->
                      Then(emitNest(emitToken(t, "VALUE"), NestEnd),
                           toAfterValue)
               [] t.state = "AFTER_KEY" ->
                      Throw(t, "CloseBracketAfterKey")
               [] t.state = "AFTER_VALUE" -> emitNest(t, NestEnd)
               [] t.state = "COMMENT_AFTER_KEY" -> t
               [] t.state = "COMMENT_AFTER_VALUE" -> t
    IN  Advance(r, 1)

handleBracketClose(t, char) ==
    LET toAfterValue(x) == SetState(x, "AFTER_VALUE")
        r == CASE t.state = "IN_KEY_WITH_QUOTE" -> Push(t, char)
               [] t.state = "IN_VALUE_WITH_QUOTE" -> Push(t, char)
               [] t.state = "IN_KEY_WITHOUT_QUOTE" ->
                      Throw(t, "CloseBracketAfterKey")
               [] t.state = "IN_VALUE_WITHOUT_QUOTE" ->
                      Then(emitNest(emitToken(t, "VALUE"), NestEnd),
                           toAfterValue)
               [] t.state = "AFTER_KEY" ->
                      Throw(t, "CloseBracketAfterKey")
               [] t.state = "AFTER_VALUE" -> emitNest(t, NestEnd)
               [] t.state = "COMMENT_AFTER_KEY" -> t
               [] t.state = "COMMENT_AFTER_VALUE" -> t
    IN  Advance(r, 1)

\* Variant: an ordinary character in a comment starts an unquoted token.
handleNormalCharacter_inComment(t, char) ==
    LET r == CASE t.state = "IN_KEY_WITH_QUOTE" -> Push(t, char)
               [] t.state = "IN_VALUE_WITH_QUOTE" -> Push(t, char)
               [] t.state = "IN_KEY_WITHOUT_QUOTE" -> Push(t, char)
               [] t.state = "IN_VALUE_WITHOUT_QUOTE" -> Push(t, char)
               [] t.state = "AFTER_KEY" ->
                      SetState(Push(t, char), "IN_VALUE_WITHOUT_QUOTE")
               [] t.state = "AFTER_VALUE" ->
                      SetState(Push(t, char), "IN_KEY_WITHOUT_QUOTE")
               [] t.state = "COMMENT_AFTER_KEY" ->
                      SetState(Push(t, char), "IN_VALUE_WITHOUT_QUOTE")
               [] t.state = "COMMENT_AFTER_VALUE" ->
                      SetState(Push(t, char), "IN_KEY_WITHOUT_QUOTE")
    IN  Advance(r, 1)

handleNormalCharacter(t, char) ==
    LET r == CASE t.state = "IN_KEY_WITH_QUOTE" -> Push(t, char)
               [] t.state = "IN_VALUE_WITH_QUOTE" -> Push(t, char)
               [] t.state = "IN_KEY_WITHOUT_QUOTE" -> Push(t, char)
               [] t.state = "IN_VALUE_WITHOUT_QUOTE" -> Push(t, char)
               [] t.state = "AFTER_KEY" ->
                      SetState(Push(t, char), "IN_VALUE_WITHOUT_QUOTE")
               [] t.state = "AFTER_VALUE" ->
                      SetState(Push(t, char), "IN_KEY_WITHOUT_QUOTE")
               [] t.state = "COMMENT_AFTER_KEY" -> t
               [] t.state = "COMMENT_AFTER_VALUE" -> t
    IN  Advance(r, 1)

\* Variant: an unsupported escape sequence is refused instead of being
\* handled like normal characters.
handleEscape_strict(t, char1, char2) ==
    IF t.state \in {"COMMENT_AFTER_KEY", "COMMENT_AFTER_VALUE"}
    THEN Advance(t, 1)
    ELSE IF char2 = "" \/ char2 = Undefined
    THEN Throw(t, "NoCharacterToEscape")
    ELSE LET charWithLookAhead == <<char1, char2>>
             keepSlash == charWithLookAhead \in ESCAPE_SEQUENCES__KEEP_SLASH
             removeSlash == charWithLookAhead \in ESCAPE_SEQUENCES__NO_SLASH
             charToPush == IF keepSlash THEN charWithLookAhead ELSE <<char2>>
         IN  IF keepSlash = removeSlash
             THEN Throw(t, "UnsupportedEscapeSequence")
             ELSE Advance(
                    CASE t.state \in {"IN_KEY_WITH_QUOTE",
                                      "IN_VALUE_WITH_QUOTE"} ->
                             PushString(t, charToPush)
                      [] OTHER -> Throw(t, "EscapeOutsideQuote"),
                    2)

handleEscape(t, char1, char2) ==
    IF t.state \in {"COMMENT_AFTER_KEY", "COMMENT_AFTER_VALUE"}
    THEN Advance(t, 1)
    ELSE IF char2 = "" \/ char2 = Undefined
    THEN Throw(t, "NoCharacterToEscape")
    ELSE LET charWithLookAhead == <<char1, char2>>
             keepSlash == charWithLookAhead \in ESCAPE_SEQUENCES__KEEP_SLASH
             removeSlash == charWithLookAhead \in ESCAPE_SEQUENCES__NO_SLASH
             charToPush == IF keepSlash THEN charWithLookAhead ELSE <<char2>>
         IN  IF keepSlash = removeSlash
             THEN Advance(handleNormalCharacter(
                              handleNormalCharacter(t, char1), char2), 2)
             ELSE Advance(
                    CASE t.state = "IN_KEY_WITH_QUOTE" ->
                             PushString(t, charToPush)
                      [] t.state = "IN_VALUE_WITH_QUOTE" ->
                             PushString(t, charToPush)
                      [] t.state = "IN_KEY_WITHOUT_QUOTE" ->
                             Throw(t, "EscapeOutsideQuote")
                      [] t.state = "IN_VALUE_WITHOUT_QUOTE" ->
                             Throw(t, "EscapeOutsideQuote")
                      [] t.state = "AFTER_KEY" ->
                             Throw(t, "EscapeOutsideQuote")
                      [] t.state = "AFTER_VALUE" ->
                             Throw(t, "EscapeOutsideQuote"),
                    2)

\* Variant: `//` inside an unquoted token enters the comment without
\* emitting the token.
handleComment_silent(t) ==
    LET r == CASE t.state = "IN_KEY_WITH_QUOTE" ->
                      SetState(emitToken(t, "KEY"), "COMMENT_AFTER_KEY")
               [] t.state = "IN_VALUE_WITH_QUOTE" ->
                      SetState(emitToken(t, "VALUE"), "COMMENT_AFTER_VALUE")
               [] t.state = "IN_KEY_WITHOUT_QUOTE" ->
                      SetState(t, "COMMENT_AFTER_KEY")
               [] t.state = "IN_VALUE_WITHOUT_QUOTE" ->
                      SetState(t, "COMMENT_AFTER_VALUE")
               [] t.state = "AFTER_KEY" -> SetState(t, "COMMENT_AFTER_KEY")
               [] t.state = "AFTER_VALUE" -> SetState(t, "COMMENT_AFTER_VALUE")
               [] t.state = "COMMENT_AFTER_KEY" -> t
               [] t.state = "COMMENT_AFTER_VALUE" -> t
    IN  Advance(r, 1)

handleComment(t) ==
    LET r == CASE t.state = "IN_KEY_WITH_QUOTE" ->
                      SetState(emitToken(t, "KEY"), "COMMENT_AFTER_KEY")
               [] t.state = "IN_VALUE_WITH_QUOTE" ->
                      SetState(emitToken(t, "VALUE"), "COMMENT_AFTER_VALUE")
               [] t.state = "IN_KEY_WITHOUT_QUOTE" ->
                      SetState(emitToken(t, "KEY"), "COMMENT_AFTER_KEY")
               [] t.state = "IN_VALUE_WITHOUT_QUOTE" ->
                      SetState(emitToken(t, "VALUE"), "COMMENT_AFTER_VALUE")
               [] t.state = "AFTER_KEY" -> SetState(t, "COMMENT_AFTER_KEY")
               [] t.state = "AFTER_VALUE" -> SetState(t, "COMMENT_AFTER_VALUE")
               [] t.state = "COMMENT_AFTER_KEY" -> t
               [] t.state = "COMMENT_AFTER_VALUE" -> t
    IN  Advance(r, 1)

\* this.previousChar = null, after a two-character pattern was consumed
SkipNext(t) == [t EXCEPT !.previousChar = Null]

\* char1 + char2; with char2 undefined the sum is "/undefined", which the
\* two-element sequence stands for as well (it differs from COMMENT_START).
Concat(char1, char2) == <<char1, char2>>

\* Variant: the disableEscape option is not consulted.
parseWindow_alwaysEscape(t, char1, char2) ==
    CASE char1 \in {CARRIAGE_RETURN_CHAR, BOM} -> t
      [] char1 = NEW_LINE_CHAR -> handleNewLine(t, char1)
      [] char1 \in {WHITE_SPACE, TAB_SPACE} -> handleWhitespace(t, char1)
      [] char1 = QUOTE -> handleQuote(t)
      [] char1 = BRACKET_OPEN -> handleBracketOpen(t, char1)
      [] char1 = BRACKET_CLOSE -> handleBracketClose(t, char1)
      [] char1 = ESCAPE -> Then(handleEscape(t, char1, char2), SkipNext)
      [] char1 = SLASH ->
             IF Concat(char1, char2) = COMMENT_START
             THEN Then(handleComment(t), SkipNext)
             ELSE handleNormalCharacter(t, char1)
      [] OTHER -> handleNormalCharacter(t, char1)

parseWindow(t, char1, char2) ==
    CASE char1 \in {CARRIAGE_RETURN_CHAR, BOM} -> t
      [] char1 = NEW_LINE_CHAR -> handleNewLine(t, char1)
      [] char1 \in {WHITE_SPACE, TAB_SPACE} -> handleWhitespace(t, char1)
      [] char1 = QUOTE -> handleQuote(t)
      [] char1 = BRACKET_OPEN -> handleBracketOpen(t, char1)
      [] char1 = BRACKET_CLOSE -> handleBracketClose(t, char1)
      [] char1 = ESCAPE ->
             IF t.options.disableEscape
             THEN handleNormalCharacter(t, char1)
             ELSE Then(handleEscape(t, char1, char2), SkipNext)
      [] char1 = SLASH ->
             IF Concat(char1, char2) = COMMENT_START
             THEN Then(handleComment(t), SkipNext)
             ELSE handleNormalCharacter(t, char1)
      [] OTHER -> handleNormalCharacter(t, char1)

\* Variant: a character arriving at an empty lookahead slot is parsed at
\* once, with no lookahead.
ingestCharBody_eager(t, char) ==
    LET store(x) == IF x.previousChar # Null
                    THEN [x EXCEPT !.previousChar = char]
                    ELSE x
    IN  IF t.previousChar = Null
        THEN Then(parseWindow(t, char, Undefined), store)
        ELSE Then(parseWindow(t, t.previousChar, char), store)

\* The body of ingestChar, continuing a call that has already yielded
\* t.yielded (flush() delegates to it with yield*).
ingestCharBody(t, char) ==
    IF t.previousChar = Null
    THEN [t EXCEPT !.previousChar = char]
    ELSE LET store(x) == IF x.previousChar # Null
                         THEN [x EXCEPT !.previousChar = char]
                         ELSE x
         IN  Then(parseWindow(t, t.previousChar, char), store)

\* A fresh call: nothing yielded, nothing thrown yet.
Call(t) == [t EXCEPT !.yielded = <<>>, !.thrown = NoError]

ingestChar(t, char) == ingestCharBody(Call(t), char)

\* Variant: the newline is ingested before the pending character is parsed
\* with no lookahead.
flush_newlineFirst(t) ==
    LET c == ingestCharBody(Call(t), NEW_LINE_CHAR)
        clear(x) == [x EXCEPT !.previousChar = Null]
        drain(x) == IF x.previousChar # Null
                    THEN Then(parseWindow(x, x.previousChar, Undefined), clear)
                    ELSE x
    IN  Then(c, drain)

\* Variant: end-of-input closes a quoted lexeme that is still open.
flush_emitPartial(t) ==
    LET c == Call(t)
        clear(x) == [x EXCEPT !.previousChar = Null]
        newline(x) == ingestCharBody(x, NEW_LINE_CHAR)
        close(x) ==
            CASE x.state = "IN_KEY_WITH_QUOTE" -> emitToken(x, "KEY")
              [] x.state = "IN_VALUE_WITH_QUOTE" -> emitToken(x, "VALUE")
              [] OTHER -> x
        drained == IF c.previousChar # Null
                   THEN Then(parseWindow(c, c.previousChar, Undefined), clear)
                   ELSE c
    IN  Then(Then(drained, close), newline)

flush(t) ==
    LET c == Call(t)
        clear(x) == [x EXCEPT !.previousChar = Null]
        newline(x) == ingestCharBody(x, NEW_LINE_CHAR)
        drained == IF c.previousChar # Null
                   THEN Then(parseWindow(c, c.previousChar, Undefined), clear)
                   ELSE c
    IN  Then(drained, newline)

(***************************************************************************)
(* The nested mapping VdfKeyValueMap (parser.ts 23-25), kept flat: one     *)
(* entry per slot, named by the path of keys that leads to it from the     *)
(* root, holding either a string or a (sub)map.  The root is the path <<>>.*)
(***************************************************************************)
EmptyMap == {}

StringEntry(path, value) == [path |-> path, kind |-> "string", value |-> value]
MapEntry(path) == [path |-> path, kind |-> "map", value |-> <<>>]

IsPrefix(p, q) == Len(p) <= Len(q) /\ SubSeq(q, 1, Len(p)) = p

\* traversed[key] === undefined, typeof traversed[key] === 'string'
IsUndefined(map, path) == \A e \in map : e.path # path
IsString(map, path) == \E e \in map : e.path = path /\ e.kind = "string"

\* traversed[key] = entry: whatever the slot held, with all below it, is gone.
Assign(map, entry) ==
    {e \in map : ~IsPrefix(entry.path, e.path)} \cup {entry}

(***************************************************************************)
(* keyStack.join('.') and pair.key.split('.')                              *)
(***************************************************************************)
DOT == "."

RECURSIVE JoinDot(_)
JoinDot(keys) ==
    IF keys = <<>> THEN <<>>
    ELSE IF Len(keys) = 1 THEN Head(keys)
    ELSE Head(keys) \o <<DOT>> \o JoinDot(Tail(keys))

RECURSIVE SplitDot(_)
SplitDot(str) ==
    IF str = <<>> THEN << <<>> >>
    ELSE LET rest == SplitDot(Tail(str))
         IN  IF Head(str) = DOT
             THEN << <<>> >> \o rest
             ELSE << <<Head(str)>> \o Head(rest) >> \o Tail(rest)

\* array.pop(): the array without its last element (an empty one stays empty)
Pop(array) ==
    IF array = <<>> THEN <<>> ELSE SubSeq(array, 1, Len(array) - 1)

(***************************************************************************)
(* The while loop of buildKvMap (parser.ts 151-169): walk the map along    *)
(* keys, creating submaps, from the container at path `at`.  The loop ends *)
(* when shift() gives undefined (no key left) or an empty string; under    *)
(* earliest-wins it returns from the function on a slot holding a string.  *)
(***************************************************************************)
RECURSIVE Traverse_keepString(_, _, _, _)
Traverse_keepString(map, at, keys, useLatestValue) ==
    IF keys = <<>>
    THEN [result |-> map, at |-> at, returned |-> FALSE, keys |-> <<>>]
    ELSE IF Head(keys) = <<>>
    THEN [result |-> map, at |-> at, returned |-> FALSE, keys |-> Tail(keys)]
    ELSE LET slot == Append(at, Head(keys))
         IN  IF IsUndefined(map, slot)
             THEN Traverse_keepString(Assign(map, MapEntry(slot)), slot,
                                      Tail(keys), useLatestValue)
             ELSE IF IsString(map, slot)
             THEN [result |-> map, at |-> at, returned |-> TRUE,
                   keys |-> Tail(keys)]
             ELSE Traverse_keepString(map, slot, Tail(keys), useLatestValue)

RECURSIVE Traverse(_, _, _, _)
Traverse(map, at, keys, useLatestValue) ==
    IF keys = <<>>
    THEN [result |-> map, at |-> at, returned |-> FALSE, keys |-> <<>>]
    ELSE IF Head(keys) = <<>>
    THEN [result |-> map, at |-> at, returned |-> FALSE, keys |-> Tail(keys)]
    ELSE LET slot == Append(at, Head(keys))
         IN  IF IsUndefined(map, slot)
             THEN Traverse(Assign(map, MapEntry(slot)), slot, Tail(keys),
                           useLatestValue)
             ELSE IF IsString(map, slot)
             THEN IF useLatestValue
                  THEN Traverse(Assign(map, MapEntry(slot)), slot, Tail(keys),
                                useLatestValue)
                  ELSE [result |-> map, at |-> at, returned |-> TRUE,
                        keys |-> Tail(keys)]
             ELSE Traverse(map, slot, Tail(keys), useLatestValue)

(***************************************************************************)
(* VdfParser of src/src/parser.ts, as a record of its fields (result,      *)
(* keyStack, tokenizer, options), with the tokens it has received, the     *)
(* pairs it has yielded and the exception of the current call.  The        *)
(* tokenizer's NEST tokens are the parser's control responses.             *)
(***************************************************************************)
NewParser(opts) ==
    [ result    |-> EmptyMap,
      keyStack  |-> <<>>,
      tokenizer |-> NewTokenizer(opts),
      options   |-> opts,
      tokens    |-> <<>>,
      pairs     |-> <<>>,
      thrown    |-> NoError ]

\* The number of UTF-16 code units of a character (char.length).
ASTRAL == "U+1E90A"
Length(char) == IF char = ASTRAL THEN 2 ELSE 1

buildKvMap_alwaysWrite(p, pair) ==
    LET keys == SplitDot(pair.key)
        lastKey == keys[Len(keys)]
        walk == Traverse(p.result, <<>>, Pop(keys), p.options.useLatestValue)
        slot == Append(walk.at, lastKey)
    IN  IF lastKey = <<>>
        THEN [p EXCEPT !.thrown = "EmptyKeyEncountered"]
        ELSE IF walk.returned
        THEN [p EXCEPT !.result = walk.result]
        ELSE [p EXCEPT !.result =
                         Assign(walk.result, StringEntry(slot, pair.value))]

buildKvMap_neverOverwrite(p, pair) ==
    LET keys == SplitDot(pair.key)
        lastKey == keys[Len(keys)]
        walk == Traverse(p.result, <<>>, Pop(keys), p.options.useLatestValue)
        slot == Append(walk.at, lastKey)
    IN  IF lastKey = <<>>
        THEN [p EXCEPT !.thrown = "EmptyKeyEncountered"]
        ELSE IF walk.returned
        THEN [p EXCEPT !.result = walk.result]
        ELSE IF IsUndefined(walk.result, slot)
        THEN [p EXCEPT !.result =
                         Assign(walk.result, StringEntry(slot, pair.value))]
        ELSE [p EXCEPT !.result = walk.result]

buildKvMap(p, pair) ==
    LET keys == SplitDot(pair.key)
        lastKey == keys[Len(keys)]
        walk == Traverse(p.result, <<>>, Pop(keys), p.options.useLatestValue)
        slot == Append(walk.at, lastKey)
    IN  IF lastKey = <<>>
        THEN [p EXCEPT !.thrown = "EmptyKeyEncountered"]
        ELSE IF walk.returned
        THEN [p EXCEPT !.result = walk.result]
        ELSE IF IsUndefined(walk.result, slot) \/ p.options.useLatestValue
        THEN [p EXCEPT !.result =
                         Assign(walk.result, StringEntry(slot, pair.value))]
        ELSE [p EXCEPT !.result = walk.result]

\* One response of the tokenizer, together with the consumer of the pair it
\* yields (the loop bodies of ingestChar and flush call buildKvMap); when
\* buildKvMap throws, the generator is abandoned before keyStack.pop().
parser_parseTokenResponse(p, response) ==
    LET q == [p EXCEPT !.tokens = Append(@, response)]
    IN  CASE response.tokenType = "KEY" ->
                 [q EXCEPT !.keyStack = Append(@, response.value)]
          [] response.tokenType = "VALUE" ->
                 LET pair == [key |-> JoinDot(q.keyStack),
                              value |-> response.value]
                     built == buildKvMap([q EXCEPT !.pairs = Append(@, pair)],
                                         pair)
                 IN  IF built.thrown # NoError THEN built
                     ELSE [built EXCEPT !.keyStack = Pop(@)]
          [] response.tokenType = "NEST" ->
                 IF response.value = NestEnd
                 THEN [q EXCEPT !.keyStack = Pop(@)]
                 ELSE q

\* for (const response of <generator>) parseTokenResponse(response)
RECURSIVE parser_responses(_, _)
parser_responses(p, responses) ==
    IF responses = <<>> \/ p.thrown # NoError THEN p
    ELSE parser_responses(parser_parseTokenResponse(p, Head(responses)),
                          Tail(responses))

\* Drain a tokenizer call: the tokens yielded before the call threw, if it
\* did, are consumed first.
parser_drain(p, t) ==
    LET q == parser_responses([p EXCEPT !.tokenizer = t], t.yielded)
    IN  IF q.thrown # NoError THEN q ELSE [q EXCEPT !.thrown = t.thrown]

\* ingestChar -> ingestIterator
parser_ingestChar(p, char) ==
    IF p.thrown # NoError THEN p
    ELSE IF Length(char) # 1
    THEN [p EXCEPT !.thrown = "MalformedIngestion"]
    ELSE parser_drain(p, ingestChar(p.tokenizer, char))

\* for (const char of text) this.ingestChar(char)
RECURSIVE parser_ingestChars(_, _)
parser_ingestChars(p, text) ==
    IF text = <<>> THEN p
    ELSE parser_ingestChars(parser_ingestChar(p, Head(text)), Tail(text))

parser_ingestText(p, text) ==
    parser_ingestChar(parser_ingestChars(p, text), NEW_LINE_CHAR)

\* flush -> flushIterator
parser_flush(p) ==
    IF p.thrown # NoError THEN p
    ELSE parser_drain(p, flush(p.tokenizer))

\* parseStream: ingestText for every chunk of the stream, then flush
RECURSIVE parser_ingestChunks(_, _)
parser_ingestChunks(p, stream) ==
    IF stream = <<>> THEN p
    ELSE parser_ingestChunks(parser_ingestText(p, Head(stream)), Tail(stream))

parser_parseStream(p, stream) == parser_flush(parser_ingestChunks(p, stream))

(***************************************************************************)
(* VdfParser of the stream.Transform revision (unnamed/part_001 321-581),  *)
(* as a record: its fields keyStack, tokenizer and options, the readable   *)
(* side of the transform (the pairs pushed and not yet handed to a 'data'  *)
(* listener), the mapping `result` that parseStream builds from them, the  *)
(* tokens received and pairs pushed so far, and the exception raised.      *)
(***************************************************************************)
NewStreamParser(opts) ==
    [ result    |-> EmptyMap,
      keyStack  |-> <<>>,
      tokenizer |-> NewTokenizer(opts),
      options   |-> opts,
      readable  |-> <<>>,
      tokens    |-> <<>>,
      pairs     |-> <<>>,
      thrown    |-> NoError ]

reset(p) == [p EXCEPT !.keyStack = <<>>]

appendPair_freshBlock(p, pair) ==
    LET keyParts == pair.keyParts
        lastKey == IF keyParts = <<>> THEN Undefined
                   ELSE keyParts[Len(keyParts)]
        walk == Traverse({e \in p.result :
                              ~IsPrefix(SubSeq(keyParts, 1, 1), e.path)},
                         <<>>, Pop(keyParts), p.options.useLatestValue)
        slot == Append(walk.at, lastKey)
    IN  IF lastKey = Undefined \/ lastKey = <<>>
        THEN [p EXCEPT !.thrown = "EmptyKeyEncountered"]
        ELSE IF walk.returned
        THEN [p EXCEPT !.result = walk.result]
        ELSE IF IsUndefined(walk.result, slot) \/ p.options.useLatestValue
        THEN [p EXCEPT !.result =
                         Assign(walk.result, StringEntry(slot, pair.value))]
        ELSE [p EXCEPT !.result = walk.result]

appendPair(p, pair) ==
    LET keyParts == pair.keyParts
        lastKey == IF keyParts = <<>> THEN Undefined
                   ELSE keyParts[Len(keyParts)]
        walk == Traverse(p.result, <<>>, Pop(keyParts),
                         p.options.useLatestValue)
        slot == Append(walk.at, lastKey)
    IN  IF lastKey = Undefined \/ lastKey = <<>>
        THEN [p EXCEPT !.thrown = "EmptyKeyEncountered"]
        ELSE IF walk.returned
        THEN [p EXCEPT !.result = walk.result]
        ELSE IF IsUndefined(walk.result, slot) \/ p.options.useLatestValue
        THEN [p EXCEPT !.result =
                         Assign(walk.result, StringEntry(slot, pair.value))]
        ELSE [p EXCEPT !.result = walk.result]

stream_parseTokenResponse_noPop(p, response) ==
    LET q == [p EXCEPT !.tokens = Append(@, response)]
    IN  CASE response.tokenType = "KEY" ->
                 [q EXCEPT !.keyStack = Append(@, response.value)]
          [] response.tokenType = "VALUE" ->
                 LET pair == [keyParts |-> q.keyStack,
                              value |-> response.value]
                 IN  [q EXCEPT !.readable = Append(@, pair),
                               !.pairs = Append(@, pair)]
          [] response.tokenType = "NEST" ->
                 IF response.value = NestEnd
                 THEN [q EXCEPT !.keyStack = Pop(@)]
                 ELSE q

\* Variant: NEST end leaves the key stack as it is.
stream_parseTokenResponse_keepKey(p, response) ==
    LET q == [p EXCEPT !.tokens = Append(@, response)]
    IN  CASE response.tokenType = "KEY" ->
                 [q EXCEPT !.keyStack = Append(@, response.value)]
          [] response.tokenType = "VALUE" ->
                 LET pair == [keyParts |-> q.keyStack,
                              value |-> response.value]
                 IN  [q EXCEPT !.readable = Append(@, pair),
                               !.pairs = Append(@, pair),
                               !.keyStack = Pop(@)]
          [] response.tokenType = "NEST" -> q

\* Variant: an empty block is reported as a pair with an empty value.
stream_parseTokenResponse_emptyBlock(p, response) ==
    LET q == [p EXCEPT !.tokens = Append(@, response)]
    IN  CASE response.tokenType = "KEY" ->
                 [q EXCEPT !.keyStack = Append(@, response.value)]
          [] response.tokenType = "VALUE" ->
                 LET pair == [keyParts |-> q.keyStack,
                              value |-> response.value]
                 IN  [q EXCEPT !.readable = Append(@, pair),
                               !.pairs = Append(@, pair),
                               !.keyStack = Pop(@)]
          [] response.tokenType = "NEST" ->
                 IF response.value = NestEnd
                 THEN IF /\ p.tokens # <<>>
                         /\ p.tokens[Len(p.tokens)] =
                              [tokenType |-> "NEST", value |-> NestStart]
                      THEN LET pair == [keyParts |-> q.keyStack,
                                        value |-> <<>>]
                           IN  [q EXCEPT !.readable = Append(@, pair),
                                         !.pairs = Append(@, pair),
                                         !.keyStack = Pop(@)]
                      ELSE [q EXCEPT !.keyStack = Pop(@)]
                 ELSE q

stream_parseTokenResponse(p, response) ==
    LET q == [p EXCEPT !.tokens = Append(@, response)]
    IN  CASE response.tokenType = "KEY" ->
                 [q EXCEPT !.keyStack = Append(@, response.value)]
          [] response.tokenType = "VALUE" ->
                 LET pair == [keyParts |-> q.keyStack,
                              value |-> response.value]
                 IN  [q EXCEPT !.readable = Append(@, pair),
                               !.pairs = Append(@, pair),
                               !.keyStack = Pop(@)]
          [] response.tokenType = "NEST" ->
                 IF response.value = NestEnd
                 THEN [q EXCEPT !.keyStack = Pop(@)]
                 ELSE q

RECURSIVE stream_responses(_, _)
stream_responses(p, responses) ==
    IF responses = <<>> THEN p
    ELSE stream_responses(stream_parseTokenResponse(p, Head(responses)),
                          Tail(responses))

stream_ingestChar(p, char) ==
    IF p.thrown # NoError THEN p
    ELSE LET t == ingestChar(p.tokenizer, char)
         IN  [stream_responses([p EXCEPT !.tokenizer = t], t.yielded)
                 EXCEPT !.thrown = t.thrown]

stream_flushTokenizer(p) ==
    IF p.thrown # NoError THEN p
    ELSE LET t == flush(p.tokenizer)
         IN  [stream_responses([p EXCEPT !.tokenizer = t], t.yielded)
                 EXCEPT !.thrown = t.thrown]

\* _transform: for (const char of chunk.toString()) this.ingestChar(char)
\* (each turn of the loop is evaluated to a value before the next one starts)
RECURSIVE transform(_, _)
transform(p, chunk) ==
    IF chunk = <<>> THEN p
    ELSE CHOOSE r \in { transform(q, Tail(chunk)) :
                            q \in {stream_ingestChar(p, Head(chunk))} } : TRUE

\* _flush; an exception leaves before reset()
streamFlush(p) ==
    LET q == stream_flushTokenizer(stream_ingestChar(p, NEW_LINE_CHAR))
    IN  IF q.thrown # NoError THEN q ELSE reset(q)

(***************************************************************************)
(* The state machine: one Tokenizer instance driven by its caller.         *)
(*   tokenizer  the instance                                               *)
(*   input      the characters passed to ingestChar so far                 *)
(*   tokens     every token the instance has yielded so far                *)
(*   phase      "ingesting" until flush() has been called, then "flushed"  *)
(*   failed     TRUE once some call has thrown                             *)
(***************************************************************************)
VARIABLES tokenizer, input, tokens, phase, failed, source, parser, chunks

vars == <<tokenizer, input, tokens, phase, failed, source, parser, chunks>>

\* The characters the callers pass in: the full input alphabet, the one of
\* the escape study and the one of the nesting study.
Chars == {"a", "n", QUOTE, ESCAPE, SLASH, BRACKET_OPEN, BRACKET_CLOSE,
          WHITE_SPACE, NEW_LINE_CHAR}
EscChars == {"a", "n", "t", QUOTE, ESCAPE, WHITE_SPACE}
NestChars == {"a", WHITE_SPACE, BRACKET_OPEN, BRACKET_CLOSE, NEW_LINE_CHAR}
OrderChars == {"a", QUOTE, NEW_LINE_CHAR, BRACKET_OPEN, BRACKET_CLOSE, SLASH}
ZeroChars == {"a", QUOTE, ESCAPE, SLASH, NEW_LINE_CHAR,
              CARRIAGE_RETURN_CHAR, BOM}
QuoteChars == {"a", QUOTE, WHITE_SPACE, TAB_SPACE, NEW_LINE_CHAR,
               BRACKET_OPEN, BRACKET_CLOSE}
SpaceChars == {"a", QUOTE, WHITE_SPACE, TAB_SPACE, SLASH, ESCAPE,
               BRACKET_OPEN}
AllChars ==
    Chars \cup EscChars \cup NestChars \cup OrderChars \cup ZeroChars
        \cup QuoteChars \cup SpaceChars

Options == [disableEscape : BOOLEAN]

ParserOptions == [disableEscape : BOOLEAN, useLatestValue : BOOLEAN]

\* No text was prepared: the caller makes up the characters as it goes.
NoSource == [kind |-> "free", rest |-> <<>>]

\* The tokenizer is driven directly: no parser was constructed.
NoParser == [kind |-> "none"]

InitTokenizer ==
    /\ \E opts \in Options : tokenizer = NewTokenizer(opts)
    /\ input = <<>>
    /\ tokens = <<>>
    /\ phase = "ingesting"
    /\ failed = FALSE
    /\ parser = NoParser
    /\ chunks = <<>>

Init == InitTokenizer /\ source = NoSource

\* The caller passes one character to ingestChar and drains the generator.
IngestChar(char) ==
    /\ phase = "ingesting"
    /\ tokenizer' = ingestChar(tokenizer, char)
    /\ input' = Append(input, char)
    /\ tokens' = tokens \o tokenizer'.yielded
    /\ failed' = (failed \/ tokenizer'.thrown # NoError)
    /\ UNCHANGED <<phase, parser, chunks>>

\* The caller calls flush() at end-of-input and drains the generator.
Flush ==
    /\ phase = "ingesting"
    /\ source.rest = <<>>
    /\ tokenizer' = flush(tokenizer)
    /\ tokens' = tokens \o tokenizer'.yielded
    /\ failed' = (failed \/ tokenizer'.thrown # NoError)
    /\ phase' = "flushed"
    /\ UNCHANGED <<input, source, parser, chunks>>

Ingest ==
    \E char \in Chars :
        Len(input) < MaxLen /\ IngestChar(char) /\ UNCHANGED source

Next == Ingest \/ Flush

Spec == Init /\ [][Next]_vars

\* The same instance driven with the characters of the escape study.
IngestEsc ==
    \E char \in EscChars :
        Len(input) < MaxEscLen /\ IngestChar(char) /\ UNCHANGED source

NextEsc == IngestEsc \/ Flush

SpecEsc == Init /\ [][NextEsc]_vars

\* The same instance driven with the characters of the nesting study.
IngestNest ==
    \E char \in NestChars :
        Len(input) < MaxNestLen /\ IngestChar(char) /\ UNCHANGED source

NextNest == IngestNest \/ Flush

SpecNest == Init /\ [][NextNest]_vars

\* The same instance driven with the characters of the token-order study.
IngestOrder ==
    \E char \in OrderChars :
        Len(input) < MaxOrderLen /\ IngestChar(char) /\ UNCHANGED source

NextOrder == IngestOrder \/ Flush

SpecOrder == Init /\ [][NextOrder]_vars

(***************************************************************************)
(* The protocol of the tests' ingestText helper (tests/tokenizer.test.ts   *)
(* 12-19) on a prepared text: every character of the text, then a newline, *)
(* then flush().  The text is a key and a value made of ordinary           *)
(* characters, separated by one space, both quoted or both unquoted.       *)
(***************************************************************************)
OrdinaryChars == {"a", "n", "t"}

\* The non-empty strings of at most n characters of S.
Strings(S, n) == UNION {[1..k -> S] : k \in 1..n}

InQuotes(str) == <<QUOTE>> \o str \o <<QUOTE>>

PairText(form, key, value) ==
    IF form = "quoted"
    THEN InQuotes(key) \o <<WHITE_SPACE>> \o InQuotes(value)
    ELSE key \o <<WHITE_SPACE>> \o value

InitPair ==
    /\ InitTokenizer
    /\ \E key \in Strings(OrdinaryChars, MaxLexLen),
          value \in Strings(OrdinaryChars, MaxLexLen),
          form \in {"quoted", "unquoted"} :
          source = [kind |-> form, key |-> key, value |-> value,
                    rest |-> PairText(form, key, value) \o <<NEW_LINE_CHAR>>]

\* for (const char of text) yield* tokenizer.ingestChar(char), and the
\* newline that follows the loop.
IngestText ==
    /\ source.rest # <<>>
    /\ IngestChar(Head(source.rest))
    /\ source' = [source EXCEPT !.rest = Tail(@)]

NextPair == IngestText \/ Flush

SpecPair == InitPair /\ [][NextPair]_vars

(***************************************************************************)
(* The same protocol on a text with a comment (tests/tokenizer.test.ts     *)
(* 203-239): a first line that ends with `//` and a comment text, either   *)
(* right behind an unquoted value (`a a//...`) or after a key and a space  *)
(* (`a //...`), and a second line that completes the document.             *)
(***************************************************************************)
CommentChars == {"a", WHITE_SPACE, QUOTE, ESCAPE, SLASH, BRACKET_OPEN,
                 BRACKET_CLOSE}

CommentText(kind, body) ==
    IF kind = "afterValue"
    THEN <<"a", WHITE_SPACE, "a", SLASH, SLASH>> \o body
           \o <<NEW_LINE_CHAR, "n", WHITE_SPACE, "n">>
    ELSE <<"a", WHITE_SPACE, SLASH, SLASH>> \o body \o <<NEW_LINE_CHAR, "n">>

InitComment ==
    /\ InitTokenizer
    /\ \E body \in Strings(CommentChars, MaxCommentLen) \cup {<<>>},
          kind \in {"afterValue", "afterKey"} :
          source = [kind |-> kind, body |-> body,
                    rest |-> CommentText(kind, body) \o <<NEW_LINE_CHAR>>]

NextComment == IngestText \/ Flush

SpecComment == InitComment /\ [][NextComment]_vars

(***************************************************************************)
(* parseStream of src/src/parser.ts on a stream that delivers its text in  *)
(* chunks: ingestText for every chunk, then flush() when the stream ends.  *)
(* `chunks` records the chunks delivered.                                  *)
(***************************************************************************)
StreamChars == {"a", QUOTE, ESCAPE, SLASH, WHITE_SPACE}

InitStream ==
    /\ \E opts \in ParserOptions :
          /\ parser = NewParser(opts)
          /\ tokenizer = NewTokenizer(opts)
    /\ input = <<>>
    /\ tokens = <<>>
    /\ failed = FALSE
    /\ source = NoSource
    /\ chunks = <<>>
    /\ phase = "reading"

\* One turn of `for await (const chunk of readStream) this.ingestText(chunk)`
ParseStreamChunk ==
    \E chunk \in Strings(StreamChars, MaxChunkLen) :
        /\ phase = "reading"
        /\ Len(Join(chunks)) + Len(chunk) <= MaxStreamLen
        /\ parser' = parser_ingestText(parser, chunk)
        /\ chunks' = Append(chunks, chunk)
        /\ phase' = IF parser'.thrown # NoError THEN "rejected" ELSE "reading"
        /\ UNCHANGED <<tokenizer, input, tokens, failed, source>>

\* The stream has ended: this.flush(); return this.result
ParseStreamEnd ==
    /\ phase = "reading"
    /\ parser' = parser_flush(parser)
    /\ phase' = IF parser'.thrown # NoError THEN "rejected" ELSE "resolved"
    /\ UNCHANGED <<tokenizer, input, tokens, failed, source, chunks>>

NextStream == ParseStreamChunk \/ ParseStreamEnd

SpecStream == InitStream /\ [][NextStream]_vars

(***************************************************************************)
(* parseStream of the stream.Transform revision (unnamed/part_001 350-371) *)
(* on the texts of the README's examples.  The readable stream is piped    *)
(* into the parser: each chunk goes through _transform, the pushed pairs   *)
(* reach the 'data' listener (appendPair) one by one, the end of the       *)
(* stream runs _flush, and 'end' resolves the promise with the mapping.    *)
(* parseText delivers the whole text as one chunk.                         *)
(***************************************************************************)
README_Basic ==
    <<QUOTE, "k", "e", "y", QUOTE, WHITE_SPACE, BRACKET_OPEN, WHITE_SPACE,
      QUOTE, "n", "e", "s", "t", "e", "d", "_", "k", "e", "y", QUOTE,
      WHITE_SPACE, QUOTE, "v", "a", "l", "u", "e", QUOTE, WHITE_SPACE,
      BRACKET_CLOSE, QUOTE>>

README_Escape ==
    <<QUOTE, ESCAPE, QUOTE, "q", "u", "o", "t", "e", "d", WHITE_SPACE, "k",
      "e", "y", ESCAPE, QUOTE, QUOTE, WHITE_SPACE, QUOTE, "v", "a", "l",
      "u", "e", QUOTE>>

README_Duplicate ==
    <<QUOTE, "k", "e", "y", QUOTE, WHITE_SPACE, BRACKET_OPEN, WHITE_SPACE,
      QUOTE, "n", "e", "s", "t", "e", "d", "_", "k", "e", "y", QUOTE,
      WHITE_SPACE, QUOTE, "v", "a", "l", "u", "e", QUOTE, WHITE_SPACE,
      BRACKET_CLOSE, QUOTE, WHITE_SPACE, QUOTE, "k", "e", "y", QUOTE,
      WHITE_SPACE, QUOTE, "v", "a", "l", "u", "e", QUOTE>>

ReadmeTexts == {README_Basic, README_Escape, README_Duplicate}

InitReadme ==
    /\ \E opts \in ParserOptions :
          /\ parser = NewStreamParser(opts)
          /\ tokenizer = NewTokenizer(opts)
    /\ \E text \in ReadmeTexts :
          source = [kind |-> "readme", text |-> text, rest |-> text]
    /\ input = <<>>
    /\ tokens = <<>>
    /\ failed = FALSE
    /\ chunks = <<>>
    /\ phase = "reading"

Transform ==
    \E n \in (1..MaxReadLen) \cup {Len(source.rest)} :
        /\ phase = "reading"
        /\ 1 <= n /\ n <= Len(source.rest)
        /\ parser' = transform(parser, SubSeq(source.rest, 1, n))
        /\ source' = [source EXCEPT
                         !.rest = SubSeq(@, n + 1, Len(@))]
        /\ phase' = IF parser'.thrown # NoError THEN "rejected" ELSE "reading"
        /\ UNCHANGED <<tokenizer, input, tokens, failed, chunks>>

StreamFlush ==
    /\ phase = "reading"
    /\ source.rest = <<>>
    /\ parser' = streamFlush(parser)
    /\ phase' = IF parser'.thrown # NoError THEN "rejected" ELSE "flushed"
    /\ UNCHANGED <<tokenizer, input, tokens, failed, source, chunks>>

\* .on('data', (pair) => this.appendPair(pair, result))
OnData ==
    /\ phase \in {"reading", "flushed"}
    /\ parser.readable # <<>>
    /\ parser' = appendPair([parser EXCEPT !.readable = Tail(@)],
                            Head(parser.readable))
    /\ phase' = IF parser'.thrown # NoError THEN "rejected" ELSE phase
    /\ UNCHANGED <<tokenizer, input, tokens, failed, source, chunks>>

\* .on('end', () => resolve(result))
OnEnd ==
    /\ phase = "flushed"
    /\ parser.readable = <<>>
    /\ phase' = "resolved"
    /\ UNCHANGED <<tokenizer, input, tokens, failed, source, chunks, parser>>

NextReadme == Transform \/ StreamFlush \/ OnData \/ OnEnd

SpecReadme == InitReadme /\ [][NextReadme]_vars

(***************************************************************************)
(* Vocabulary of the properties.                                           *)
(***************************************************************************)
Quoted == {"IN_KEY_WITH_QUOTE", "IN_VALUE_WITH_QUOTE"}
Unquoted == {"IN_KEY_WITHOUT_QUOTE", "IN_VALUE_WITHOUT_QUOTE"}
InComment == {"COMMENT_AFTER_KEY", "COMMENT_AFTER_VALUE"}
EscapeErrors ==
    {"EscapeOutsideQuote", "NoCharacterToEscape", "UnsupportedEscapeSequence"}

\* The lexeme in progress.
Lexeme(t) == Join(t.tokenParts)

\* This step is a call of ingestChar(c) / of flush().
IngestStep(c) ==
    phase = "ingesting" /\ phase' = "ingesting" /\ input' = Append(input, c)
FlushStep == phase = "ingesting" /\ phase' = "flushed"

EscapesEnabled == ~tokenizer.options.disableEscape

KeyToken(v) == [tokenType |-> "KEY", value |-> v]
ValueToken(v) == [tokenType |-> "VALUE", value |-> v]
NestToken(d) == [tokenType |-> "NEST", value |-> d]

(***************************************************************************)
(* C1: once flush() has returned without raising, no unquoted key or value *)
(* is still in progress: the lexeme pending at end-of-input was emitted.   *)
(***************************************************************************)
C1_FlushEmitsPendingLexeme ==
    (phase = "flushed" /\ ~failed) => tokenizer.state \notin Unquoted

(***************************************************************************)
(* C4: the escape law.  With escapes enabled, inside a quoted lexeme a     *)
(* pending backslash resolved by a second backslash or by a quote appends  *)
(* that one character and keeps the lexeme open; resolved by n or t it     *)
(* appends backslash and letter; the pair empties the lookahead slot, so a *)
(* quote that comes next is stored on its own, and a pending quote closes  *)
(* the lexeme with exactly the characters collected.                       *)
(***************************************************************************)
C4_EscapeLaw ==
    [][ /\ \A c \in {ESCAPE, QUOTE, "n", "t"} :
             ( /\ IngestStep(c)
               /\ EscapesEnabled
               /\ tokenizer.previousChar = ESCAPE
               /\ tokenizer.state \in Quoted )
             => /\ tokenizer'.thrown = NoError
                /\ tokenizer'.yielded = <<>>
                /\ tokenizer'.state = tokenizer.state
                /\ tokenizer'.previousChar = Null
                /\ Lexeme(tokenizer') =
                     Lexeme(tokenizer) \o
                       (IF c \in {"n", "t"} THEN <<ESCAPE, c>> ELSE <<c>>)
        /\ ( /\ IngestStep(QUOTE)
             /\ tokenizer.previousChar = Null
             /\ tokenizer.state \in Quoted )
           => /\ tokenizer'.previousChar = QUOTE
              /\ tokenizer'.state = tokenizer.state
              /\ Lexeme(tokenizer') = Lexeme(tokenizer)
        /\ ( /\ phase = "ingesting"
             /\ tokenizer.previousChar = QUOTE
             /\ tokenizer.state \in Quoted )
           => /\ tokenizer'.state \in {"AFTER_KEY", "AFTER_VALUE"}
              /\ tokenizer'.yielded =
                   << [tokenType |-> IF tokenizer.state = "IN_KEY_WITH_QUOTE"
                                     THEN "KEY" ELSE "VALUE",
                       value |-> Lexeme(tokenizer)] >>
      ]_vars

\* "\\" is ingested and flushed with escapes enabled: the key is one backslash.
C4_Witness ==
    /\ input = <<QUOTE, ESCAPE, ESCAPE, QUOTE>>
    /\ phase = "flushed"
    /\ EscapesEnabled
    /\ tokens = <<KeyToken(<<ESCAPE>>)>>

(***************************************************************************)
(* C5: with escapes enabled, a pending backslash resolved while the        *)
(* tokenizer is outside a quoted lexeme and outside a comment raises       *)
(* EscapeOutsideQuote, whatever the character that follows it.             *)
(***************************************************************************)
C5_EscapeOutsideQuoteAlways ==
    [][ \A c \in AllChars :
          ( /\ IngestStep(c)
            /\ EscapesEnabled
            /\ tokenizer.previousChar = ESCAPE
            /\ tokenizer.state \in Unquoted \cup {"AFTER_KEY", "AFTER_VALUE"} )
          => tokenizer'.thrown = "EscapeOutsideQuote"
      ]_vars

C9_FlushPendingEscapeRaises ==
    [][ ( /\ FlushStep
          /\ EscapesEnabled
          /\ tokenizer.previousChar = ESCAPE
          /\ tokenizer.state \notin InComment )
        => /\ tokenizer'.thrown = "NoCharacterToEscape"
           /\ tokenizer'.yielded = <<>>
      ]_vars

\* Quote, backslash, end of input.
C9_Witness ==
    /\ EscapesEnabled
    /\ input = <<QUOTE, ESCAPE>>
    /\ phase = "flushed"
    /\ tokenizer.thrown = "NoCharacterToEscape"

(***************************************************************************)
(* C10: a pending close-brace resolved in AFTER_VALUE or in                *)
(* IN_VALUE_WITHOUT_QUOTE raises TooManyBrackets and emits no NEST token   *)
(* when the depth is not above zero; when the depth is above zero it       *)
(* raises nothing, emits NEST end as the last token of the call and lowers *)
(* the depth by exactly one.                                               *)
(***************************************************************************)
C10_CloseBracketDepth ==
    [][ ( /\ phase = "ingesting"
          /\ tokenizer.previousChar = BRACKET_CLOSE
          /\ tokenizer.state \in {"AFTER_VALUE", "IN_VALUE_WITHOUT_QUOTE"} )
        => IF tokenizer.nestedLevel - 1 < 0
           THEN /\ tokenizer'.thrown = "TooManyBrackets"
                /\ \A i \in 1..Len(tokenizer'.yielded) :
                     tokenizer'.yielded[i].tokenType # "NEST"
           ELSE /\ tokenizer'.thrown = NoError
                /\ tokenizer'.nestedLevel = tokenizer.nestedLevel - 1
                /\ tokenizer'.state = "AFTER_VALUE"
                /\ tokenizer'.yielded =
                     (IF tokenizer.state = "IN_VALUE_WITHOUT_QUOTE"
                      THEN <<ValueToken(Lexeme(tokenizer))>> ELSE <<>>)
                     \o <<NestToken(NestEnd)>>
      ]_vars

\* a{a a} : the close-brace ends the unquoted value at depth 1 and brings the
\* depth back to 0.
C10_Witness ==
    /\ input = <<"a", BRACKET_OPEN, "a", WHITE_SPACE, "a", BRACKET_CLOSE>>
    /\ phase = "flushed"
    /\ tokens = <<KeyToken(<<"a">>), NestToken(NestStart), KeyToken(<<"a">>),
                  ValueToken(<<"a">>), NestToken(NestEnd)>>
    /\ tokenizer.nestedLevel = 0
    /\ ~failed

(***************************************************************************)
(* C3: under the helper protocol (text, newline, flush) a key and a value  *)
(* made of ordinary characters give the tokens KEY key, VALUE value, the   *)
(* same in the quoted and in the unquoted form, and nothing is raised.     *)
(***************************************************************************)
C3_QuotedAndUnquotedAgree ==
    phase = "flushed"
    => /\ tokens = <<KeyToken(source.key), ValueToken(source.value)>>
       /\ ~failed

\* A quoted pair was tokenized to the end and gave its two tokens.
C3_Witness ==
    /\ phase = "flushed"
    /\ source.kind = "quoted"
    /\ source.key = <<"a", "n">>
    /\ source.value = <<"t">>
    /\ tokens = <<KeyToken(<<"a", "n">>), ValueToken(<<"t">>)>>


(***************************************************************************)
(* C2: chunk-boundary invariance of parseStream.  When parseStream has     *)
(* resolved on a stream of chunks, the tokens it received, the pairs it    *)
(* yielded and the mapping it built are those of parseStream on the same   *)
(* text delivered as one chunk, which resolves as well.                    *)
(***************************************************************************)
C2_ChunkBoundaryInvariance ==
    phase = "resolved" =>
        LET whole == parser_parseStream(NewParser(parser.options),
                                        <<Join(chunks)>>)
        IN  /\ whole.thrown = NoError
            /\ parser.tokens = whole.tokens
            /\ parser.pairs = whole.pairs
            /\ parser.result = whole.result

(***************************************************************************)
(* C8: the README's escape example.  With disableEscape set, parsing the   *)
(* text "\"quoted key\"" "value" ends by resolving with the mapping whose  *)
(* single entry has the key \"quoted key\" and the value `value`.          *)
(***************************************************************************)
C8_ReadmeEscapeExample ==
    ( /\ source.text = README_Escape
      /\ parser.options.disableEscape
      /\ phase \in {"resolved", "rejected"} )
    => /\ phase = "resolved"
       /\ parser.result =
            { StringEntry(
                << <<ESCAPE, QUOTE, "q", "u", "o", "t", "e", "d", WHITE_SPACE,
                     "k", "e", "y", ESCAPE, QUOTE>> >>,
                <<"v", "a", "l", "u", "e">>) }

(***************************************************************************)
(* C11: a pending open-brace resolved in AFTER_VALUE (the initial state    *)
(* included) or in IN_VALUE_WITHOUT_QUOTE raises OpenBracketAfterValue,    *)
(* emits nothing and leaves the depth as it was; resolved in AFTER_KEY it  *)
(* emits NEST start, resolved in IN_KEY_WITHOUT_QUOTE it emits the KEY and *)
(* then NEST start, and in both cases the tokenizer moves to AFTER_VALUE   *)
(* one level deeper.                                                       *)
(***************************************************************************)
C11_OpenBracketPlacement ==
    [][ ( /\ phase = "ingesting"
          /\ tokenizer.previousChar = BRACKET_OPEN )
        => /\ tokenizer.state \in {"AFTER_VALUE", "IN_VALUE_WITHOUT_QUOTE"}
                => /\ tokenizer'.thrown = "OpenBracketAfterValue"
                   /\ tokenizer'.yielded = <<>>
                   /\ tokenizer'.nestedLevel = tokenizer.nestedLevel
           /\ tokenizer.state \in {"AFTER_KEY", "IN_KEY_WITHOUT_QUOTE"}
                => /\ tokenizer'.thrown = NoError
                   /\ tokenizer'.yielded =
                        (IF tokenizer.state = "IN_KEY_WITHOUT_QUOTE"
                         THEN <<KeyToken(Lexeme(tokenizer))>> ELSE <<>>)
                        \o <<NestToken(NestStart)>>
                   /\ tokenizer'.state = "AFTER_VALUE"
                   /\ tokenizer'.nestedLevel = tokenizer.nestedLevel + 1
      ]_vars

\* a{{ : the first brace opens the block of key a, the second one comes
\* after a value position and is refused at depth 1.
C11_Witness ==
    /\ input = <<"a", BRACKET_OPEN, BRACKET_OPEN>>
    /\ phase = "flushed"
    /\ tokens = <<KeyToken(<<"a">>), NestToken(NestStart)>>
    /\ tokenizer.thrown = "OpenBracketAfterValue"
    /\ tokenizer.nestedLevel = 1

(***************************************************************************)
(* C12: a pending close-brace resolved in AFTER_KEY or in                  *)
(* IN_KEY_WITHOUT_QUOTE raises CloseBracketAfterKey, emits no token and    *)
(* leaves the depth as it was.                                             *)
(***************************************************************************)
C12_CloseBracketAfterKey ==
    [][ ( /\ phase = "ingesting"
          /\ tokenizer.previousChar = BRACKET_CLOSE
          /\ tokenizer.state \in {"AFTER_KEY", "IN_KEY_WITHOUT_QUOTE"} )
        => /\ tokenizer'.thrown = "CloseBracketAfterKey"
           /\ tokenizer'.yielded = <<>>
           /\ tokenizer'.nestedLevel = tokenizer.nestedLevel
      ]_vars

\* a{a} : the inner key a has no value when the block is closed.
C12_Witness ==
    /\ input = <<"a", BRACKET_OPEN, "a", BRACKET_CLOSE>>
    /\ phase = "flushed"
    /\ tokens = <<KeyToken(<<"a">>), NestToken(NestStart)>>
    /\ tokenizer.thrown = "CloseBracketAfterKey"
    /\ tokenizer.nestedLevel = 1

\* The tokens of the first line of a text with a comment, and of the text.
FirstLineTokens ==
    IF source.kind = "afterValue"
    THEN <<KeyToken(<<"a">>), ValueToken(<<"a">>)>>
    ELSE <<KeyToken(<<"a">>)>>
BothLinesTokens ==
    IF source.kind = "afterValue"
    THEN <<KeyToken(<<"a">>), ValueToken(<<"a">>),
           KeyToken(<<"n">>), ValueToken(<<"n">>)>>
    ELSE <<KeyToken(<<"a">>), ValueToken(<<"n">>)>>

(***************************************************************************)
(* C13: in COMMENT_AFTER_KEY and COMMENT_AFTER_VALUE a pending character   *)
(* other than newline is resolved as a no-op: nothing is emitted, nothing  *)
(* is raised, and state, lexeme buffer and depth stay as they were.  So no *)
(* token ever comes out of the comment text: the tokens of a text with a   *)
(* comment are those of its lines without the comment, and no error.       *)
(***************************************************************************)
C13_CommentTextIsInert ==
    /\ [][ ( /\ phase = "ingesting"
             /\ tokenizer.state \in InComment
             /\ tokenizer.previousChar \notin {Null, NEW_LINE_CHAR} )
           => /\ tokenizer'.thrown = NoError
              /\ tokenizer'.yielded = <<>>
              /\ tokenizer'.state = tokenizer.state
              /\ tokenizer'.tokenParts = tokenizer.tokenParts
              /\ tokenizer'.nestedLevel = tokenizer.nestedLevel
         ]_vars
    /\ [](phase = "flushed"
            => /\ ~failed
               /\ tokens \in {FirstLineTokens, BothLinesTokens})

\* a a//{}" and the second line: braces and quote of the comment gave nothing.
C13_Witness ==
    /\ phase = "flushed"
    /\ source.kind = "afterValue"
    /\ source.body = <<BRACKET_OPEN, BRACKET_CLOSE, QUOTE>>
    /\ tokens = BothLinesTokens
    /\ tokenizer.state = "AFTER_VALUE"

(***************************************************************************)
(* C14: a comment ends at the first newline after its `//`, whatever the   *)
(* comment text: when the text has been tokenized, the tokenizer is out of *)
(* the comment and the keys and values of the following line were emitted. *)
(***************************************************************************)
C14_CommentEndsAtNewline ==
    phase = "flushed"
    => /\ tokenizer.state \notin InComment
       /\ tokens = BothLinesTokens

(***************************************************************************)
(* C15: inside a quoted key or value `//` does not start a comment: when a *)
(* pending slash is resolved with a second slash behind it, no token is    *)
(* emitted, the state stays the quoted one and the slash joins the lexeme. *)
(***************************************************************************)
C15_CommentMarkerInsideQuotes ==
    [][ ( /\ IngestStep(SLASH)
          /\ tokenizer.previousChar = SLASH
          /\ tokenizer.state \in Quoted )
        => /\ tokenizer'.yielded = <<>>
           /\ tokenizer'.state = tokenizer.state
           /\ SubSeq(Lexeme(tokenizer'), 1, Len(Lexeme(tokenizer)) + 1) =
                Lexeme(tokenizer) \o <<SLASH>>
      ]_vars

\* The characters that end an unquoted token according to the claim.
Delimiters ==
    {WHITE_SPACE, TAB_SPACE, NEW_LINE_CHAR, QUOTE, BRACKET_OPEN, BRACKET_CLOSE}

(***************************************************************************)
(* C16 as stated: an unquoted key or value is ended only by whitespace,    *)
(* newline, quote or a brace, and `//` inside it is literal: a step that   *)
(* emits a token or leaves the unquoted state resolves one of those        *)
(* characters, and a slash resolved with a slash behind it is appended.    *)
(***************************************************************************)
C16_OnlyDelimitersEndUnquoted ==
    [][ ( /\ phase = "ingesting"
          /\ tokenizer.state \in Unquoted )
        => /\ (tokenizer'.yielded # <<>> \/ tokenizer'.state # tokenizer.state)
                => tokenizer.previousChar \in Delimiters
           /\ (IngestStep(SLASH) /\ tokenizer.previousChar = SLASH)
                => /\ tokenizer'.state = tokenizer.state
                   /\ SubSeq(Lexeme(tokenizer'), 1,
                             Len(Lexeme(tokenizer)) + 1) =
                        Lexeme(tokenizer) \o <<SLASH>>
      ]_vars

(***************************************************************************)
(* C16 amended: an unquoted key or value is ended only by whitespace,      *)
(* newline, quote, a brace or the comment marker `//`.  A `//` inside an   *)
(* unquoted token ends it: the token collected so far is emitted without   *)
(* the slashes, the tokenizer enters COMMENT_AFTER_KEY or                  *)
(* COMMENT_AFTER_VALUE and both slashes are consumed.  A slash that is not *)
(* followed by a slash is literal: it is appended to the token.            *)
(***************************************************************************)
C16_UnquotedTokenEnds ==
    [][ ( /\ phase = "ingesting"
          /\ tokenizer.state \in Unquoted )
        => /\ (tokenizer'.yielded # <<>> \/ tokenizer'.state # tokenizer.state)
                => \/ tokenizer.previousChar \in Delimiters
                   \/ (tokenizer.previousChar = SLASH /\ IngestStep(SLASH))
           /\ (tokenizer.previousChar = SLASH /\ IngestStep(SLASH))
                => /\ tokenizer'.thrown = NoError
                   /\ tokenizer'.yielded =
                        IF tokenizer.state = "IN_KEY_WITHOUT_QUOTE"
                        THEN <<KeyToken(Lexeme(tokenizer))>>
                        ELSE <<ValueToken(Lexeme(tokenizer))>>
                   /\ tokenizer'.state =
                        IF tokenizer.state = "IN_KEY_WITHOUT_QUOTE"
                        THEN "COMMENT_AFTER_KEY" ELSE "COMMENT_AFTER_VALUE"
                   /\ tokenizer'.previousChar = Null
                   /\ tokenizer'.tokenParts = <<>>
           /\ (tokenizer.previousChar = SLASH /\ ~IngestStep(SLASH))
                => /\ tokenizer'.thrown = NoError
                   /\ tokenizer'.yielded = <<>>
                   /\ tokenizer'.state = tokenizer.state
                   /\ Lexeme(tokenizer') = Lexeme(tokenizer) \o <<SLASH>>
      ]_vars

\* a// : the marker ended the unquoted key a and opened the comment.
C16_Witness ==
    /\ input = <<"a", SLASH, SLASH>>
    /\ phase = "ingesting"
    /\ tokens = <<KeyToken(<<"a">>)>>
    /\ tokenizer.state = "COMMENT_AFTER_KEY"
    /\ tokenizer.previousChar = Null
    /\ ~failed

\* A KEY is never directly followed by a KEY or by NEST end, and a VALUE or
\* a NEST start directly follows a KEY.
WellOrdered(toks) ==
    \A i \in 1..Len(toks) :
        /\ (toks[i].tokenType = "VALUE" \/ toks[i] = NestToken(NestStart))
              => (i > 1 /\ toks[i - 1].tokenType = "KEY")
        /\ (toks[i].tokenType = "KEY" \/ toks[i] = NestToken(NestEnd))
              => (i = 1 \/ toks[i - 1].tokenType # "KEY")

(***************************************************************************)
(* C17: the tokens produced up to the first error, those of the failing    *)
(* call included, are well ordered: no KEY is directly followed by a KEY   *)
(* or by NEST end, and every VALUE and every NEST start directly follows a *)
(* KEY.                                                                    *)
(***************************************************************************)
C17_TokenOrder ==
    [][ ~failed => WellOrdered(tokens') ]_vars

\* a{a, newline, a} gave KEY, NEST start, KEY, VALUE, NEST end.
C17_Witness ==
    /\ input = <<"a", BRACKET_OPEN, "a", NEW_LINE_CHAR, "a", BRACKET_CLOSE>>
    /\ phase = "flushed"
    /\ tokens = <<KeyToken(<<"a">>), NestToken(NestStart), KeyToken(<<"a">>),
                  ValueToken(<<"a">>), NestToken(NestEnd)>>
    /\ ~failed

(***************************************************************************)
(* C18: every NEST start is closed or the parse ends in error: when all    *)
(* the calls of ingestChar and the final flush() have completed without    *)
(* raising, the nesting depth is 0.                                        *)
(***************************************************************************)
C18_UnclosedBlockIsAnError ==
    (phase = "flushed" /\ ~failed) => tokenizer.nestedLevel = 0

(***************************************************************************)
(* C19: every KEY gets its VALUE or NEST start: when a parse has finished  *)
(* without raising, the last token emitted is not a KEY and the tokenizer  *)
(* is not in AFTER_KEY.                                                    *)
(***************************************************************************)
C19_NoDanglingKey ==
    (phase = "flushed" /\ ~failed)
    => /\ tokenizer.state # "AFTER_KEY"
       /\ (tokens = <<>> \/ tokens[Len(tokens)].tokenType # "KEY")

\* The number of occurrences of a character in a text.
RECURSIVE Count(_, _)
Count(text, char) ==
    IF text = <<>> THEN 0
    ELSE (IF Head(text) = char THEN 1 ELSE 0) + Count(Tail(text), char)

MaxPipeLen == 7

PipeChars == {"a", "b", WHITE_SPACE, BRACKET_OPEN, BRACKET_CLOSE}

InitPipe ==
    /\ \E opts \in ParserOptions :
          /\ parser = NewStreamParser(opts)
          /\ tokenizer = NewTokenizer(opts)
    /\ source = NoSource
    /\ input = <<>>
    /\ tokens = <<>>
    /\ failed = FALSE
    /\ chunks = <<>>
    /\ phase = "reading"

\* _transform(chunk) with a chunk of one character
TransformChar ==
    \E char \in PipeChars :
        /\ phase = "reading"
        /\ Len(input) < MaxPipeLen
        /\ parser' = transform(parser, <<char>>)
        /\ input' = Append(input, char)
        /\ phase' = IF parser'.thrown # NoError THEN "rejected" ELSE "reading"
        /\ UNCHANGED <<tokenizer, tokens, failed, source, chunks>>

NextPipe == TransformChar \/ StreamFlush \/ OnData \/ OnEnd

SpecPipe == InitPipe /\ [][NextPipe]_vars

\* the key stack the text of the claim prescribes after a token sequence
RECURSIVE StackAfter(_)
StackAfter(toks) ==
    IF toks = <<>> THEN <<>>
    ELSE LET before == StackAfter(SubSeq(toks, 1, Len(toks) - 1))
             last == toks[Len(toks)]
         IN  CASE last.tokenType = "KEY" -> Append(before, last.value)
               [] last.tokenType = "VALUE" -> Pop(before)
               [] last.tokenType = "NEST" ->
                      IF last.value = NestEnd THEN Pop(before) ELSE before

\* one pair per VALUE token, in token order, keyed by the stack at that token
RECURSIVE PairsOf(_)
PairsOf(toks) ==
    IF toks = <<>> THEN <<>>
    ELSE LET front == SubSeq(toks, 1, Len(toks) - 1)
             last == toks[Len(toks)]
         IN  IF last.tokenType = "VALUE"
             THEN Append(PairsOf(front),
                         [keyParts |-> StackAfter(front),
                          value |-> last.value])
             ELSE PairsOf(front)

\* C21: the pairs yielded so far are exactly one pair per VALUE token, in
\* token order, each keyed by the key stack at its VALUE token (KEY pushes,
\* VALUE pops after yielding, NEST start keeps, NEST end pops); this holds
\* for duplicate keys and under both values of useLatestValue, and until
\* _flush resets it the key stack is the one those rules give.
C21_OnePairPerValueToken ==
    /\ parser.pairs = PairsOf(parser.tokens)
    /\ phase = "reading" => parser.keyStack = StackAfter(parser.tokens)

\* "a b a b": the key a is given twice and a pair is yielded each time
C21_Witness ==
    /\ phase = "resolved"
    /\ input = <<"a", WHITE_SPACE, "b", WHITE_SPACE, "a", WHITE_SPACE, "b">>
    /\ parser.pairs = << [keyParts |-> << <<"a">> >>, value |-> <<"b">>],
                         [keyParts |-> << <<"a">> >>, value |-> <<"b">>] >>

(***************************************************************************)
(* parseText of src/src/parser.ts on documents that repeat keys.  A        *)
(* document is written from a list of key paths: the i-th path is written  *)
(* as its own chain of blocks around the value i ("k{a 1}", "k 2 "), so    *)
(* that the i-th pair the parser folds is the i-th path with the value i.  *)
(***************************************************************************)
MaxPairs == 2
MaxPathLen == 2

DocKeys == {<<"k">>, <<"a">>}
Digits == <<"1", "2", "3", "4", "5", "6", "7", "8", "9">>
DocValue(i) == <<Digits[i]>>

DocPaths == Strings(DocKeys, MaxPathLen)

RECURSIVE RenderPair(_, _)
RenderPair(path, value) ==
    IF Len(path) = 1
    THEN Head(path) \o <<WHITE_SPACE>> \o value
    ELSE Head(path) \o <<BRACKET_OPEN>> \o RenderPair(Tail(path), value)
             \o <<BRACKET_CLOSE>>

RECURSIVE Render(_, _)
Render(paths, i) ==
    IF i > Len(paths) THEN <<>>
    ELSE RenderPair(paths[i], DocValue(i))
             \o (IF Len(paths[i]) = 1 THEN <<WHITE_SPACE>> ELSE <<>>)
             \o Render(paths, i + 1)

InitDoc ==
    /\ \E useLatestValue \in BOOLEAN :
          /\ parser = NewParser([disableEscape |-> FALSE,
                                 useLatestValue |-> useLatestValue])
          /\ tokenizer = parser.tokenizer
    /\ \E paths \in Strings(DocPaths, MaxPairs) :
          source = [kind |-> "doc", paths |-> paths,
                    text |-> Render(paths, 1), rest |-> Render(paths, 1)]
    /\ input = <<>>
    /\ tokens = <<>>
    /\ failed = FALSE
    /\ chunks = <<>>
    /\ phase = "reading"

\* parseText -> ingestText: one turn of `for (const char of text)`
ParseTextChar ==
    /\ phase = "reading"
    /\ source.rest # <<>>
    /\ parser' = parser_ingestChar(parser, Head(source.rest))
    /\ source' = [source EXCEPT !.rest = Tail(@)]
    /\ phase' = IF parser'.thrown # NoError THEN "rejected" ELSE "reading"
    /\ UNCHANGED <<tokenizer, input, tokens, failed, chunks>>

\* the rest of parseText: this.ingestChar('\n'); this.flush(); return
ParseTextEnd ==
    /\ phase = "reading"
    /\ source.rest = <<>>
    /\ parser' = parser_flush(parser_ingestChar(parser, NEW_LINE_CHAR))
    /\ phase' = IF parser'.thrown # NoError THEN "rejected" ELSE "resolved"
    /\ UNCHANGED <<tokenizer, input, tokens, failed, source, chunks>>

NextDoc == ParseTextChar \/ ParseTextEnd

SpecDoc == InitDoc /\ [][NextDoc]_vars

\* this step folded one pair: its key path (the key stack when the VALUE
\* token arrived) and its value
FoldsPair == Len(parser'.pairs) = Len(parser.pairs) + 1
FoldedPath == parser.keyStack
FoldedValue == parser'.pairs[Len(parser'.pairs)].value
ProperPrefixes(path) == {SubSeq(path, 1, n) : n \in 1..(Len(path) - 1)}

\* C22: under earliest-wins, folding a pair whose full path already holds a
\* string or a submap leaves the mapping unchanged; the document
\* k{a 1}k 2 therefore gives { k: { a: "1" } }.
C22_EarliestWins ==
    /\ [][ ( /\ FoldsPair
             /\ ~parser.options.useLatestValue
             /\ ~IsUndefined(parser.result, FoldedPath) )
           => parser'.result = parser.result ]_vars
    /\ []( ( /\ phase = "resolved"
             /\ ~parser.options.useLatestValue
             /\ source.paths = << << <<"k">>, <<"a">> >>, << <<"k">> >> >> )
           => parser.result = { MapEntry(<< <<"k">> >>),
                                StringEntry(<< <<"k">>, <<"a">> >>, <<"1">>) } )

C22_Witness ==
    /\ phase = "resolved"
    /\ ~parser.options.useLatestValue
    /\ source.paths = << << <<"k">>, <<"a">> >>, << <<"k">> >> >>
    /\ Len(parser.pairs) = 2
    /\ parser.result = { MapEntry(<< <<"k">> >>),
                         StringEntry(<< <<"k">>, <<"a">> >>, <<"1">>) }

\* the value of the last pair of the document written at exactly this path
LastValueAt(path) ==
    DocValue(CHOOSE i \in 1..Len(source.paths) :
                 /\ source.paths[i] = path
                 /\ \A j \in (i + 1)..Len(source.paths) :
                        source.paths[j] # path)

\* C23: under latest-wins, folding a pair always writes its value at its
\* full path, replacing the string or the submap that was there, so every
\* string of the result is the value of the last pair written at its path;
\* the document k{a 1}k 2 therefore gives { k: "2" }.
C23_LatestWins ==
    /\ [][ (FoldsPair /\ parser.options.useLatestValue)
           => { e \in parser'.result : IsPrefix(FoldedPath, e.path) }
                = { StringEntry(FoldedPath, FoldedValue) } ]_vars
    /\ []( (phase = "resolved" /\ parser.options.useLatestValue)
           => \A e \in parser.result :
                  e.kind = "string"
                  => /\ \E i \in 1..Len(source.paths) :
                            source.paths[i] = e.path
                     /\ e.value = LastValueAt(e.path) )
    /\ []( ( /\ phase = "resolved"
             /\ parser.options.useLatestValue
             /\ source.paths = << << <<"k">>, <<"a">> >>, << <<"k">> >> >> )
           => parser.result = { StringEntry(<< <<"k">> >>, <<"2">>) } )

C23_Witness ==
    /\ phase = "resolved"
    /\ parser.options.useLatestValue
    /\ source.paths = << << <<"k">>, <<"a">> >>, << <<"k">> >> >>
    /\ Len(parser.pairs) = 2
    /\ parser.result = { StringEntry(<< <<"k">> >>, <<"2">>) }

\* C25: when folding a pair meets a string at an intermediate segment of
\* its path, earliest-wins abandons the pair and leaves the mapping
\* unchanged, and latest-wins replaces the string by a fresh submap and
\* goes on, so that the value ends at the pair's full path below submaps.
C25_StringAtIntermediateSegment ==
    [][ ( /\ FoldsPair
          /\ \E q \in ProperPrefixes(FoldedPath) :
                 IsString(parser.result, q) )
        => IF parser.options.useLatestValue
           THEN /\ StringEntry(FoldedPath, FoldedValue) \in parser'.result
                /\ \A q \in ProperPrefixes(FoldedPath) :
                       /\ MapEntry(q) \in parser'.result
                       /\ ~IsString(parser'.result, q)
           ELSE parser'.result = parser.result ]_vars

\* k 1 k{a 2}: the string at k is in the way of the second pair
C25_Witness ==
    /\ phase = "resolved"
    /\ source.paths = << << <<"k">> >>, << <<"k">>, <<"a">> >> >>
    /\ Len(parser.pairs) = 2
    /\ parser.result =
         IF parser.options.useLatestValue
         THEN { MapEntry(<< <<"k">> >>),
                StringEntry(<< <<"k">>, <<"a">> >>, <<"2">>) }
         ELSE { StringEntry(<< <<"k">> >>, <<"1">>) }

(***************************************************************************)
(* parseText of the stream.Transform parser on the same documents: the     *)
(* text is read in chunks by _transform, the pairs it pushes are folded by *)
(* the 'data' listener.                                                    *)
(***************************************************************************)
InitDocStream ==
    /\ \E useLatestValue \in BOOLEAN :
          /\ parser = NewStreamParser([disableEscape |-> FALSE,
                                       useLatestValue |-> useLatestValue])
          /\ tokenizer = parser.tokenizer
    /\ \E paths \in Strings(DocPaths, MaxPairs) :
          source = [kind |-> "doc", paths |-> paths,
                    text |-> Render(paths, 1), rest |-> Render(paths, 1)]
    /\ input = <<>>
    /\ tokens = <<>>
    /\ failed = FALSE
    /\ chunks = <<>>
    /\ phase = "reading"

SpecDocStream == InitDocStream /\ [][NextReadme]_vars

\* the 'data' listener folds the pair at the head of the readable side
Appends == parser.readable # <<>> /\ parser'.readable = Tail(parser.readable)
AppendedPath == Head(parser.readable).keyParts

\* no path of the document runs through the full path of another: every
\* value given to a repeated key is a block
OnlyBlocksRepeat ==
    \A i, j \in 1..Len(source.paths) :
        IsPrefix(source.paths[i], source.paths[j])
        => source.paths[i] = source.paths[j]

FirstValueAt(path) ==
    DocValue(CHOOSE i \in 1..Len(source.paths) :
                 /\ source.paths[i] = path
                 /\ \A j \in 1..(i - 1) : source.paths[j] # path)

\* C24: under both policies the blocks a key opens are merged into one
\* submap.  Folding a pair whose enclosing keys hold submaps keeps every
\* entry that is not at or below the pair's own path; when only blocks
\* repeat, the result holds every path of the document (with its first
\* value under earliest-wins and its last under latest-wins); the document
\* k{a 1}k{k 2} gives { k: { a: "1", k: "2" } }.
C24_BlocksMerge ==
    /\ [][ ( /\ Appends
             /\ \A q \in ProperPrefixes(AppendedPath) :
                    MapEntry(q) \in parser.result )
           => \A e \in parser.result :
                  ~IsPrefix(AppendedPath, e.path) => e \in parser'.result
         ]_vars
    /\ []( (phase = "resolved" /\ OnlyBlocksRepeat)
           => \A i \in 1..Len(source.paths) :
                  /\ StringEntry(source.paths[i],
                                 IF parser.options.useLatestValue
                                 THEN LastValueAt(source.paths[i])
                                 ELSE FirstValueAt(source.paths[i]))
                         \in parser.result
                  /\ \A q \in ProperPrefixes(source.paths[i]) :
                         MapEntry(q) \in parser.result )
    /\ []( ( /\ phase = "resolved"
             /\ source.paths = << << <<"k">>, <<"a">> >>,
                                  << <<"k">>, <<"k">> >> >> )
           => parser.result = { MapEntry(<< <<"k">> >>),
                                StringEntry(<< <<"k">>, <<"a">> >>, <<"1">>),
                                StringEntry(<< <<"k">>, <<"k">> >>, <<"2">>) } )

\* k{a 1}k{k 2}: the key k has opened two blocks
C24_Witness ==
    /\ phase = "resolved"
    /\ source.paths = << << <<"k">>, <<"a">> >>, << <<"k">>, <<"k">> >> >>
    /\ parser.result = { MapEntry(<< <<"k">> >>),
                         StringEntry(<< <<"k">>, <<"a">> >>, <<"1">>),
                         StringEntry(<< <<"k">>, <<"k">> >>, <<"2">>) }

(***************************************************************************)
(* C26: a call of ingestChar that finds the lookahead slot empty (the      *)
(* first call, and the call after an escape pair or after `//`) only       *)
(* stores its character: it emits nothing, raises nothing, and state,      *)
(* lexeme and depth stay as they were; the character is then pending, to   *)
(* be resolved by the next call.                                           *)
(***************************************************************************)
C26_EmptySlotOnlyStores ==
    [][ \A c \in AllChars :
          (IngestStep(c) /\ tokenizer.previousChar = Null)
          => /\ tokenizer'.thrown = NoError
             /\ tokenizer'.yielded = <<>>
             /\ tokenizer'.state = tokenizer.state
             /\ tokenizer'.tokenParts = tokenizer.tokenParts
             /\ tokenizer'.nestedLevel = tokenizer.nestedLevel
             /\ tokenizer'.previousChar = c
      ]_vars

\* a//{ : the brace arrived at the slot emptied by the comment marker.
C26_Witness ==
    /\ input = <<"a", SLASH, SLASH, BRACKET_OPEN>>
    /\ phase = "ingesting"
    /\ tokens = <<KeyToken(<<"a">>)>>
    /\ tokenizer.state = "COMMENT_AFTER_KEY"
    /\ tokenizer.previousChar = BRACKET_OPEN
    /\ ~failed

(***************************************************************************)
(* The tokenizer driven with texts that hold carriage returns and byte     *)
(* order marks.                                                            *)
(***************************************************************************)
MaxZeroLen == 4

IngestZero ==
    \E char \in ZeroChars :
        Len(input) < MaxZeroLen /\ IngestChar(char) /\ UNCHANGED source

NextZero == IngestZero \/ Flush

SpecZero == Init /\ [][NextZero]_vars

\* The outcome of tokenizing a whole text: ingestChar for each character,
\* stopping at the first call that raises, then flush().
RECURSIVE IngestAll(_, _, _)
IngestAll(t, text, toks) ==
    IF text = <<>>
    THEN [tokenizer |-> t, tokens |-> toks, thrown |-> NoError]
    ELSE LET u == ingestChar(t, Head(text))
         IN  IF u.thrown # NoError
             THEN [tokenizer |-> u, tokens |-> toks \o u.yielded,
                   thrown |-> u.thrown]
             ELSE IngestAll(u, Tail(text), toks \o u.yielded)

Tokenize(opts, text) ==
    LET run == IngestAll(NewTokenizer(opts), text, <<>>)
        end == flush(run.tokenizer)
    IN  IF run.thrown # NoError
        THEN [tokens |-> run.tokens, thrown |-> run.thrown]
        ELSE [tokens |-> run.tokens \o end.yielded, thrown |-> end.thrown]

\* the text without the characters of a set
RECURSIVE Without(_, _)
Without(text, chars) ==
    IF text = <<>> THEN <<>>
    ELSE (IF Head(text) \in chars THEN <<>> ELSE <<Head(text)>>)
             \o Without(Tail(text), chars)

(***************************************************************************)
(* C27: carriage return and byte order mark are zero-width wherever they   *)
(* occur: a text tokenizes to the same tokens, and raises the same error   *)
(* if any, as the text with every CR and BOM deleted.                      *)
(***************************************************************************)
C27_CrAndBomAreZeroWidth ==
    phase = "flushed"
    => Tokenize(tokenizer.options, input)
         = Tokenize(tokenizer.options,
                    Without(input, {CARRIAGE_RETURN_CHAR, BOM}))

(***************************************************************************)
(* The tokenizer driven with quotes and the characters that delimit tokens *)
(* outside quotes.                                                         *)
(***************************************************************************)
MaxQuoteLen == 5

IngestQuote ==
    \E char \in QuoteChars :
        Len(input) < MaxQuoteLen /\ IngestChar(char) /\ UNCHANGED source

NextQuote == IngestQuote \/ Flush

SpecQuote == Init /\ [][NextQuote]_vars

MaxContentLen == 3

ContentChars == {"a", WHITE_SPACE, BRACKET_OPEN, BRACKET_CLOSE}

AdjacentText(key, content) == key \o InQuotes(content)

InitAdjacent ==
    /\ InitTokenizer
    /\ \E key \in Strings(OrdinaryChars, MaxLexLen),
          content \in Strings(ContentChars, MaxContentLen) :
          source = [kind |-> "adjacent", key |-> key, value |-> content,
                    rest |-> AdjacentText(key, content) \o <<NEW_LINE_CHAR>>]

SpecAdjacent == InitAdjacent /\ [][NextPair]_vars

(***************************************************************************)
(* C29: an unquoted key directly followed by a quoted value gives the      *)
(* tokens KEY key, VALUE content, where content is everything between the  *)
(* two quotes, whatever it is made of, and nothing is raised.              *)
(***************************************************************************)
C29_UnquotedKeyThenQuotedValue ==
    phase = "flushed"
    => /\ tokens = <<KeyToken(source.key), ValueToken(source.value)>>
       /\ ~failed

(***************************************************************************)
(* The tokenizer driven with spaces and tabs among quotes, slashes,        *)
(* backslashes and open-braces.                                            *)
(***************************************************************************)
MaxSpaceLen == 5

IngestSpace ==
    \E char \in SpaceChars :
        Len(input) < MaxSpaceLen /\ IngestChar(char) /\ UNCHANGED source

NextSpace == IngestSpace \/ Flush

SpecSpace == Init /\ [][NextSpace]_vars

\* the i-th character of the input is a space or a tab that stands between
\* tokens: when it is pending, the tokenizer is in AFTER_KEY or AFTER_VALUE
BetweenTokens(i) ==
    /\ input[i] \in {WHITE_SPACE, TAB_SPACE}
    /\ LET run == IngestAll(NewTokenizer(tokenizer.options),
                            SubSeq(input, 1, i), <<>>)
       IN  /\ run.thrown = NoError
           /\ run.tokenizer.state \in {"AFTER_KEY", "AFTER_VALUE"}
           /\ run.tokenizer.previousChar = input[i]

\* the text without its i-th character
Delete(text, i) == SubSeq(text, 1, i - 1) \o SubSeq(text, i + 1, Len(text))

(***************************************************************************)
(* C30: spaces and tabs between tokens are idempotent.  A pending space or *)
(* tab resolved in AFTER_KEY or AFTER_VALUE emits nothing, raises nothing  *)
(* and leaves state, lexeme buffer and depth as they were; and a text      *)
(* tokenizes to the same tokens (and the same error, if any) as the text   *)
(* without any one of its spaces or tabs that stand between tokens.        *)
(***************************************************************************)
C30_SpacesBetweenTokens ==
    /\ [][ ( /\ phase = "ingesting"
             /\ tokenizer.state \in {"AFTER_KEY", "AFTER_VALUE"}
             /\ tokenizer.previousChar \in {WHITE_SPACE, TAB_SPACE} )
           => /\ tokenizer'.thrown = NoError
              /\ tokenizer'.yielded = <<>>
              /\ tokenizer'.state = tokenizer.state
              /\ tokenizer'.tokenParts = tokenizer.tokenParts
              /\ tokenizer'.nestedLevel = tokenizer.nestedLevel
         ]_vars
    /\ []( phase = "flushed"
           => \A i \in 1..Len(input) :
                  BetweenTokens(i)
                  => Tokenize(tokenizer.options, input)
                       = Tokenize(tokenizer.options, Delete(input, i)) )

\* a, space, tab, a, space: the tab is a second blank after the key a
C30_Witness ==
    /\ input = <<"a", WHITE_SPACE, TAB_SPACE, "a", WHITE_SPACE>>
    /\ phase = "flushed"
    /\ BetweenTokens(3)
    /\ tokens = <<KeyToken(<<"a">>), ValueToken(<<"a">>)>>
    /\ ~failed

(***************************************************************************)
(* C31: the nesting depth is never negative, in no reachable state of the  *)
(* tokenizer, the state left by a call that raised included.               *)
(***************************************************************************)
C31_DepthNeverNegative == tokenizer.nestedLevel >= 0

(***************************************************************************)
(* C32: errors are fatal for the instance: once a call of ingestChar or    *)
(* flush has raised, every later call on the same instance raises as well  *)
(* and emits no token.                                                     *)
(***************************************************************************)
C32_ErrorsAreFatal ==
    [][ (failed /\ phase = "ingesting")
        => /\ tokenizer'.thrown # NoError
           /\ tokenizer'.yielded = <<>>
      ]_vars

(***************************************************************************)
(* condensePairs of the stream.Transform parser, called twice on the same  *)
(* array of pair records.  appendPair takes the segments off the keyParts  *)
(* array of the record it is given (pop, shift), so the records are part   *)
(* of the state.  Segments are the key texts the tokenizer can emit, the   *)
(* empty text of a "" key included.                                        *)
(***************************************************************************)
CondenseKeys == {<<>>, <<"a">>}

CondensePaths == {<<>>} \cup Strings(CondenseKeys, MaxPathLen)

\* the pair record after appendPair(pair, result): lastKey was popped, and
\* the loop has shifted the segments it looked at
appendPair_record(p, pair) ==
    LET keyParts == pair.keyParts
        lastKey == IF keyParts = <<>> THEN Undefined
                   ELSE keyParts[Len(keyParts)]
        walk == Traverse(p.result, <<>>, Pop(keyParts),
                         p.options.useLatestValue)
    IN  IF lastKey = Undefined \/ lastKey = <<>>
        THEN [pair EXCEPT !.keyParts = Pop(keyParts)]
        ELSE [pair EXCEPT !.keyParts = walk.keys]

InitCondense ==
    /\ \E useLatestValue \in BOOLEAN :
          /\ parser = NewStreamParser([disableEscape |-> FALSE,
                                       useLatestValue |-> useLatestValue])
          /\ tokenizer = parser.tokenizer
    /\ \E paths \in Strings(CondensePaths, MaxPairs) :
          LET given == [i \in 1..Len(paths) |->
                           [keyParts |-> paths[i], value |-> DocValue(i)]]
          IN  source = [kind |-> "pairs", given |-> given, pairs |-> given,
                        next |-> 1, call |-> 1, first |-> EmptyMap,
                        rest |-> <<>>]
    /\ input = <<>>
    /\ tokens = <<>>
    /\ failed = FALSE
    /\ chunks = <<>>
    /\ phase = "condensing"

\* one turn of `for (const pair of pairs) this.appendPair(pair, result)`
CondensePair ==
    /\ phase = "condensing"
    /\ source.next <= Len(source.pairs)
    /\ LET pair == source.pairs[source.next]
       IN  /\ parser' = appendPair(parser, pair)
           /\ source' = [source EXCEPT
                            !.pairs[source.next] =
                                appendPair_record(parser, pair),
                            !.next = @ + 1]
    /\ phase' = IF parser'.thrown # NoError THEN "rejected" ELSE "condensing"
    /\ UNCHANGED <<tokenizer, input, tokens, failed, chunks>>

\* return result
CondenseReturn ==
    /\ phase = "condensing"
    /\ source.next > Len(source.pairs)
    /\ source' = [source EXCEPT
                     !.first = IF source.call = 1 THEN parser.result ELSE @]
    /\ phase' = "returned"
    /\ UNCHANGED <<tokenizer, input, tokens, failed, chunks, parser>>

\* the second call on the same array: const result = {}; this.reset()
CondenseAgain ==
    /\ phase = "returned"
    /\ source.call = 1
    /\ parser' = reset([parser EXCEPT !.result = EmptyMap])
    /\ source' = [source EXCEPT !.call = 2, !.next = 1]
    /\ phase' = "condensing"
    /\ UNCHANGED <<tokenizer, input, tokens, failed, chunks>>

NextCondense == CondensePair \/ CondenseReturn \/ CondenseAgain

SpecCondense == InitCondense /\ [][NextCondense]_vars

\* the mapping nested along a path, with the value at its last segment
NestedAlong(path, value) ==
    {MapEntry(q) : q \in ProperPrefixes(path)} \cup {StringEntry(path, value)}

(***************************************************************************)
(* C33: folding a pair of n >= 1 segments into an empty mapping gives the  *)
(* mapping nested along exactly that path (n-1 submaps and the value at    *)
(* the last segment), whatever the segment texts, the empty text of a ""   *)
(* key included; EmptyKeyEncountered is raised only for a pair without     *)
(* segments.                                                               *)
(***************************************************************************)
C33_OnePairIntoEmptyMapping ==
    [][ ( /\ phase = "condensing"
          /\ source.next <= Len(source.pairs)
          /\ parser.result = EmptyMap )
        => LET pair == source.pairs[source.next]
           IN  IF pair.keyParts = <<>>
               THEN parser'.thrown = "EmptyKeyEncountered"
               ELSE /\ parser'.thrown = NoError
                    /\ parser'.result =
                         NestedAlong(pair.keyParts, pair.value)
      ]_vars

(***************************************************************************)
(* C37: condensePairs leaves the pair records it is given as they were     *)
(* (keyParts keeps all its segments), so that condensing the same stored   *)
(* pairs a second time returns a mapping equal to the first.               *)
(***************************************************************************)
C37_CondenseLeavesPairsAlone ==
    /\ source.pairs = source.given
    /\ (phase = "returned" /\ source.call = 2) => parser.result = source.first

(***************************************************************************)
(* parseText of src/src/parser.ts on documents whose keys may hold a dot.  *)
(***************************************************************************)
DotKeys == {<<"k">>, <<"k", DOT, "a">>}

InitDot ==
    /\ \E useLatestValue \in BOOLEAN :
          /\ parser = NewParser([disableEscape |-> FALSE,
                                 useLatestValue |-> useLatestValue])
          /\ tokenizer = parser.tokenizer
    /\ \E paths \in Strings(Strings(DotKeys, MaxPathLen), MaxPairs) :
          source = [kind |-> "doc", paths |-> paths,
                    text |-> Render(paths, 1), rest |-> Render(paths, 1)]
    /\ input = <<>>
    /\ tokens = <<>>
    /\ failed = FALSE
    /\ chunks = <<>>
    /\ phase = "reading"

SpecDot == InitDot /\ [][NextDoc]_vars

(***************************************************************************)
(* C34: in src/src/parser.ts the key path that reaches the fold (the keys  *)
(* buildKvMap walks) has one segment per enclosing KEY token plus the leaf *)
(* key, each equal to the text of its KEY token, also when a key holds the *)
(* character `.`.                                                          *)
(***************************************************************************)
C34_PathSegmentsAreKeyTexts ==
    [][ FoldsPair
        => SplitDot(parser'.pairs[Len(parser'.pairs)].key) = parser.keyStack
      ]_vars

(***************************************************************************)
(* parseStream of src/src/parser.ts on text that holds a character outside *)
(* the Basic Multilingual Plane.  `for (const char of text)` iterates by   *)
(* code point, so such a character is one element, of length 2.            *)
(***************************************************************************)
AstralChars == {"a", WHITE_SPACE, ASTRAL}

ParseAstralChunk ==
    \E chunk \in Strings(AstralChars, MaxChunkLen) :
        /\ phase = "reading"
        /\ Len(Join(chunks)) + Len(chunk) <= MaxStreamLen
        /\ parser' = parser_ingestText(parser, chunk)
        /\ chunks' = Append(chunks, chunk)
        /\ phase' = IF parser'.thrown # NoError THEN "rejected" ELSE "reading"
        /\ UNCHANGED <<tokenizer, input, tokens, failed, source>>

NextAstral == ParseAstralChunk \/ ParseStreamEnd

SpecAstral == InitStream /\ [][NextAstral]_vars

(***************************************************************************)
(* C35: parseText and parseStream of src/src/parser.ts never raise the     *)
(* one-character-per-call error, whatever the text, characters outside the *)
(* Basic Multilingual Plane included.                                      *)
(***************************************************************************)
C35_NoMalformedIngestion == parser.thrown # "MalformedIngestion"

(***************************************************************************)
(* C36: while the tokenizer has raised nothing, after every token the      *)
(* aggregator has processed the length of the key stack is the tokenizer's *)
(* nesting depth, plus one exactly when the last token is a KEY (which has *)
(* not yet received its VALUE or NEST start); hence every pair yielded has *)
(* at least one key: no VALUE arrives with an empty key stack.             *)
(***************************************************************************)
C36_KeyStackFollowsDepth ==
    /\ (phase = "reading" /\ parser.thrown = NoError)
         => Len(parser.keyStack) =
              parser.tokenizer.nestedLevel
                + (IF /\ parser.tokens # <<>>
                      /\ parser.tokens[Len(parser.tokens)].tokenType = "KEY"
                   THEN 1 ELSE 0)
    /\ parser.thrown = NoError
         => \A i \in 1..Len(parser.pairs) : parser.pairs[i].keyParts # <<>>

\* a{b{a : two blocks are open and the key a is waiting for its value
C36_Witness ==
    /\ phase = "reading"
    /\ input = <<"a", BRACKET_OPEN, "b", BRACKET_OPEN, "a", WHITE_SPACE,
                 "b">>
    /\ parser.tokenizer.nestedLevel = 2
    /\ parser.keyStack = << <<"a">>, <<"b">>, <<"a">> >>
    /\ parser.thrown = NoError

(***************************************************************************)
(* The stream.Transform parser while a stream is being transformed, with   *)
(* calls of reset() on the same instance between two chunks;               *)
(* condensePairs and condensePairsAsync start with this.reset() and touch  *)
(* no other field of the instance.                                         *)
(***************************************************************************)
ResetCall ==
    /\ phase = "reading"
    /\ parser' = reset(parser)
    /\ UNCHANGED <<tokenizer, input, tokens, failed, source, chunks, phase>>

NextPipeReset == NextPipe \/ ResetCall

SpecPipeReset == InitPipe /\ [][NextPipeReset]_vars

(***************************************************************************)
(* C38: calling reset, condensePairs or condensePairsAsync on an instance  *)
(* that is in the middle of transforming a stream does not change the key  *)
(* paths of the pairs the stream emits: they stay the paths given by the   *)
(* enclosing keys of each VALUE token.                                     *)
(***************************************************************************)
C38_ResetDuringStream ==
    /\ Len(parser.pairs) = Len(PairsOf(parser.tokens))
    /\ \A i \in 1..Len(parser.pairs) :
           parser.pairs[i].keyParts = PairsOf(parser.tokens)[i].keyParts


(***************************************************************************)
(* C39: end-of-input inside a quoted key or value.  As stated: when        *)
(* flush() leaves the tokenizer inside a quoted key or value (the closing  *)
(* quote never came), the call emits no token and raises no error, and the *)
(* tokens emitted before are unchanged.                                    *)
(***************************************************************************)
C39_UnclosedQuoteIsSilent ==
    [][ (FlushStep /\ tokenizer'.state \in Quoted)
        => /\ tokenizer'.yielded = <<>>
           /\ tokenizer'.thrown = NoError
           /\ tokens' = tokens
      ]_vars

\* C39, amended: when flush() leaves the tokenizer inside a quoted key or
\* value, the call emits no token, the tokens emitted before are unchanged
\* and the partial lexeme stays unemitted; it raises NoCharacterToEscape
\* when escapes are enabled and the pending character is a backslash, and
\* no error otherwise.
C39_UnclosedQuoteEmitsNothing ==
    [][ (FlushStep /\ tokenizer'.state \in Quoted)
        => /\ tokenizer'.yielded = <<>>
           /\ tokens' = tokens
           /\ tokenizer'.thrown =
                  IF EscapesEnabled /\ tokenizer.previousChar = ESCAPE
                  THEN "NoCharacterToEscape"
                  ELSE NoError
      ]_vars

\* The quoted value `"a` is open when flush() is called, after the key
\* `a` was emitted: nothing is added and nothing is raised.
C39_Witness ==
    /\ phase = "flushed"
    /\ input = <<"a", WHITE_SPACE, QUOTE, "a">>
    /\ tokenizer.state = "IN_VALUE_WITH_QUOTE"
    /\ Lexeme(tokenizer) = <<"a">>
    /\ tokens = <<KeyToken(<<"a">>)>>
    /\ tokenizer.yielded = <<>>
    /\ tokenizer.thrown = NoError


(***************************************************************************)
(* C40: a key followed by an empty block.  Whenever the text read so far   *)
(* ends with `{}` (the close-brace resolved by one more character), the    *)
(* tokens end with KEY, NEST start, NEST end; these three tokens yield no  *)
(* pair, the key stack is the one (and so has the length) it had before    *)
(* the KEY token, and the mapping has an entry at or below that key only   *)
(* where a yielded pair leads through it.                                  *)
(***************************************************************************)
EmptyBlockRead ==
    /\ phase = "reading"
    /\ Len(input) >= 3
    /\ input[Len(input) - 2] = BRACKET_OPEN
    /\ input[Len(input) - 1] = BRACKET_CLOSE

C40_EmptyBlock ==
    EmptyBlockRead =>
        LET m == Len(parser.tokens)
        IN  /\ m >= 3
            /\ parser.tokens[m - 2].tokenType = "KEY"
            /\ parser.tokens[m - 1] = NestToken(NestStart)
            /\ parser.tokens[m] = NestToken(NestEnd)
            /\ LET front == SubSeq(parser.tokens, 1, m - 3)
                   before == StackAfter(front)
                   key == Append(before, parser.tokens[m - 2].value)
               IN  /\ parser.pairs = PairsOf(front)
                   /\ parser.keyStack = before
                   /\ Len(parser.keyStack) = Len(key) - 1
                   /\ \A e \in parser.result :
                          IsPrefix(key, e.path) =>
                              \E i \in 1..Len(parser.pairs) :
                                  IsPrefix(key, parser.pairs[i].keyParts)

\* b{a{} : the empty block of a is closed inside the block of b
C40_Witness ==
    /\ EmptyBlockRead
    /\ input = <<"b", BRACKET_OPEN, "a", BRACKET_OPEN, BRACKET_CLOSE,
                 WHITE_SPACE>>
    /\ parser.tokens = <<KeyToken(<<"b">>), NestToken(NestStart),
                         KeyToken(<<"a">>), NestToken(NestStart),
                         NestToken(NestEnd)>>
    /\ parser.keyStack = << <<"b">> >>
    /\ parser.pairs = <<>>
    /\ parser.result = EmptyMap

====
